---- MODULE Spec2Model ----
(***************************************************************************)
(* Model of the image-to-pattern pipeline of doodlelizer:                  *)
(*   calculateResizeDimensions -> pixel sampling -> mode processor         *)
(*   -> generateSVG -> extractColorGroupSVG / extractAllColorGroups.       *)
(*                                                                         *)
(* Numbers.  JavaScript numbers are modelled exactly: integers as          *)
(* integers, the quotients the code forms (outputWidth / columnsCount,     *)
(* (255 - gray) / 255, ...) as fractions <<numerator, denominator>> or by  *)
(* cross-multiplication.  Math.round(p/q) is Round(p, q) (half rounds up). *)
(* Strings are sequences of one-character strings, so that template        *)
(* literals, String.replace and the id selectors are computed character    *)
(* by character.                                                           *)
(***************************************************************************)
EXTENDS Integers, Sequences, FiniteSets, TLC

VARIABLES
  pc,          \* position of the caller in the pipeline
  settings,    \* the Settings object handed to the core
  imageData,   \* the ImageData object (pixels, dimensions, colorGroups)
  svgContent,  \* the document returned by the last generateSVG call
  extracted,   \* the result of the last extraction call
  dimCall,     \* a call of calculateResizeDimensions: arguments and result
  promise,     \* the promise processImage returned, with the calls of its executor
  img,         \* the decoded image a load handed to img.onload
  nearestCall, \* a call of findNearestCentroidIndex: arguments and result
  kmeans,      \* a call of kMeansClustering: arguments, loop variables, result
  home,        \* the Home component: its state hooks and the runs in flight
  loader       \* the RandomImageLoader component: its state hooks and timers

vars == <<pc, settings, imageData, svgContent, extracted, dimCall, promise, img,
         nearestCall, kmeans, home, loader>>

(***************************************************************************)
(* Bounds of the model.                                                    *)
(***************************************************************************)
MaxOriginalDim == 6      \* original image width/height range 1..MaxOriginalDim
MaxGridCount == 2        \* columnsCount/rowsCount range 1..MaxGridCount (dimension calls)

(***************************************************************************)
(* Generic helpers.                                                        *)
(***************************************************************************)
None == [kind |-> "none"]

Abs(n) == IF n < 0 THEN -n ELSE n

SetMax(S) == CHOOSE m \in S : \A n \in S : n <= m

SetMin(S) == CHOOSE m \in S : \A n \in S : m <= n

\* Math.round of the fraction p/q (q > 0): nearest integer, halves towards +infinity.
Round(p, q) == (2 * p + q) \div (2 * q)

\* Fractions <<n, d>> with d > 0.
Frac(n, d) == <<n, d>>

FracMul(k, f) == <<k * f[1], f[2]>>

(***************************************************************************)
(* Dimension Calculator (image-processor.ts, calculateResizeDimensions).   *)
(***************************************************************************)
MAX_DIMENSION == 560

\* aspectRatio = originalWidth / originalHeight, compared with 1 and used as
\* Math.round(MAX_DIMENSION / aspectRatio) resp. Math.round(MAX_DIMENSION * aspectRatio).
calculateResizeDimensions(originalWidth, originalHeight, columnsCount, rowsCount) ==
  LET outputWidth ==
        IF originalWidth < originalHeight THEN MAX_DIMENSION
        ELSE IF originalWidth > originalHeight
             THEN Round(MAX_DIMENSION * originalWidth, originalHeight)
             ELSE MAX_DIMENSION
      outputHeight ==
        IF originalWidth < originalHeight
        THEN Round(MAX_DIMENSION * originalHeight, originalWidth)
        ELSE MAX_DIMENSION
  IN [resizedWidth  |-> columnsCount,
      resizedHeight |-> rowsCount,
      columnsCount  |-> columnsCount,
      rowsCount     |-> rowsCount,
      gridSizeX     |-> Frac(outputWidth, columnsCount),
      gridSizeY     |-> Frac(outputHeight, rowsCount),
      outputWidth   |-> outputWidth,
      outputHeight  |-> outputHeight]

(***************************************************************************)
(* Strings: sequences of one-character strings.                            *)
(***************************************************************************)
DigitChars == <<"0", "1", "2", "3", "4", "5", "6", "7", "8", "9">>

HexChars == <<"0", "1", "2", "3", "4", "5", "6", "7", "8", "9", "a", "b", "c", "d", "e", "f">>

\* String(n) / `${n}` for an integer n >= 0.
RECURSIVE NumberToString(_)
NumberToString(n) ==
  IF n < 10 THEN <<DigitChars[n + 1]>>
  ELSE NumberToString(n \div 10) \o <<DigitChars[(n % 10) + 1]>>

\* Number.prototype.toString(16) for an integer n >= 0.
RECURSIVE NumberToHex(_)
NumberToHex(n) ==
  IF n < 16 THEN <<HexChars[n + 1]>>
  ELSE NumberToHex(n \div 16) \o <<HexChars[(n % 16) + 1]>>

StartsWith(s, prefix) ==
  Len(s) >= Len(prefix) /\ SubSeq(s, 1, Len(prefix)) = prefix

\* Positions at which pattern occurs in s.
Occurrences(s, pattern) ==
  {i \in 1..(Len(s) - Len(pattern) + 1) : SubSeq(s, i, i + Len(pattern) - 1) = pattern}

\* String.prototype.replace(pattern, "") with a string pattern: the first
\* occurrence only is removed.
ReplaceFirstWithEmpty(s, pattern) ==
  IF Occurrences(s, pattern) = {} THEN s
  ELSE LET i == SetMin(Occurrences(s, pattern))
       IN SubSeq(s, 1, i - 1) \o SubSeq(s, i + Len(pattern), Len(s))

STR_gray == <<"g", "r", "a", "y", "-">>

STR_Gray == <<"G", "r", "a", "y", " ">>

STR_monochrome == <<"m", "o", "n", "o", "c", "h", "r", "o", "m", "e">>

STR_Monochrome == <<"M", "o", "n", "o", "c", "h", "r", "o", "m", "e">>

STR_cyan == <<"c", "y", "a", "n">>

STR_magenta == <<"m", "a", "g", "e", "n", "t", "a">>

STR_yellow == <<"y", "e", "l", "l", "o", "w">>

STR_black == <<"b", "l", "a", "c", "k">>

STR_color_group == <<"c", "o", "l", "o", "r", "-", "g", "r", "o", "u", "p", "-">>

(***************************************************************************)
(* Colour conversions (image-processor.ts).                                *)
(***************************************************************************)
componentToHex(c) ==
  LET hex == NumberToHex(c)
  IN IF Len(hex) = 1 THEN <<"0">> \o hex ELSE hex

rgbToHex(r, g, b) ==
  <<"#">> \o componentToHex(r) \o componentToHex(g) \o componentToHex(b)

\* k = 1 - max(rn, gn, bn); c = (1 - rn - k) / (1 - k), ...; each channel is
\* Math.round(value * 255).  With M = max(r, g, b): c*255 = 255*(M - r)/M and
\* k*255 = 255 - M.  (In IEEE arithmetic an exact half of c*255 may round
\* down; the colours the specifications draw have no such half.)
rgbToCMYK(r, g, b) ==
  LET M == SetMax({r, g, b})
  IN [cyan    |-> IF M > 0 THEN Round(255 * (M - r), M) ELSE 0,
      magenta |-> IF M > 0 THEN Round(255 * (M - g), M) ELSE 0,
      yellow  |-> IF M > 0 THEN Round(255 * (M - b), M) ELSE 0,
      black   |-> 255 - M]

\* Object.entries(cmyk): the channels in insertion order.
CMYKChannels == <<"cyan", "magenta", "yellow", "black">>

ChannelKey(channel) ==
  CASE channel = "cyan" -> STR_cyan
    [] channel = "magenta" -> STR_magenta
    [] channel = "yellow" -> STR_yellow
    [] channel = "black" -> STR_black

(***************************************************************************)
(* Pixel Sampler (image-processor.ts, processImage, img.onload).           *)
(* raster is the RGBA content of the columns x rows grid canvas, cell      *)
(* index y * gridWidth + x.                                                *)
(***************************************************************************)
\* Math.round((r*0.299 + g*0.587 + b*0.114) * a) with a = alpha / 255.
Brightness(r, g, b, alpha) ==
  Round((299 * r + 587 * g + 114 * b) * alpha, 1000 * 255)

SampledBrightness(cell, s) ==
  LET raw == Brightness(cell.r, cell.g, cell.b, cell.a)
  IN IF s.invert THEN 255 - raw ELSE raw

\* Retained with strict comparisons: a cell whose brightness equals the
\* threshold is dropped.
RetainedStrict(cell, s) ==
  \/ s.processingMode = "cmyk"
  \/ IF s.invert THEN SampledBrightness(cell, s) > s.brightnessThreshold
                 ELSE SampledBrightness(cell, s) < s.brightnessThreshold

Retained(cell, s) ==
  \/ s.processingMode = "cmyk"
  \/ IF s.invert THEN SampledBrightness(cell, s) >= s.brightnessThreshold
                 ELSE SampledBrightness(cell, s) <= s.brightnessThreshold

RECURSIVE SamplePixels(_, _, _, _, _)
SamplePixels(raster, gridWidth, gridHeight, s, i) ==
  IF i >= gridWidth * gridHeight THEN <<>>
  ELSE LET cell == raster[i + 1]
           pixel == [x |-> i % gridWidth, y |-> i \div gridWidth,
                     brightness |-> SampledBrightness(cell, s),
                     r |-> cell.r, g |-> cell.g, b |-> cell.b, a |-> cell.a]
       IN (IF Retained(cell, s) THEN <<pixel>> ELSE <<>>)
          \o SamplePixels(raster, gridWidth, gridHeight, s, i + 1)

(***************************************************************************)
(* Mode processors: shared pieces.                                         *)
(***************************************************************************)
\* pixelGrid[y][x]: the last pixel of imageData.pixels at (x, y), or null (<<>>).
pixelGrid(pixels, x, y) ==
  LET at == {i \in DOMAIN pixels : pixels[i].x = x /\ pixels[i].y = y}
  IN IF at = {} THEN <<>> ELSE <<pixels[SetMax(at)]>>

\* The non-null cells of pixelGrid in the order of the processors' loops
\* (for y ... for x ...).
RECURSIVE GridScan(_, _, _, _)
GridScan(pixels, width, height, i) ==
  IF i >= width * height THEN <<>>
  ELSE pixelGrid(pixels, i % width, i \div width) \o GridScan(pixels, width, height, i + 1)

\* Math.round(minDensity + (num/den) * (maxDensity - minDensity)).
LinearDensity(minDensity, maxDensity, num, den) ==
  Round(minDensity * den + num * (maxDensity - minDensity), den)

ensureEvenDensity(density) ==
  IF density <= 0 THEN 0
  ELSE IF density % 2 = 0 THEN density ELSE density - 1

\* MakePoint anchoring every tile at its left edge.
MakePointLeftAnchored(x, y, s, density) ==
  [x |-> FracMul(x, s.gridSizeX),
   y |-> FracMul(y, s.gridSizeY),
   width |-> s.gridSizeX,
   height |-> s.gridSizeY,
   density |-> density,
   row |-> y,
   direction |-> IF y % 2 = 0 THEN 1 ELSE -1]

\* The PathPoint pushed for grid cell (x, y).
MakePoint(x, y, s, density) ==
  [x |-> IF y % 2 = 0 THEN FracMul(x, s.gridSizeX) ELSE FracMul(x + 1, s.gridSizeX),
   y |-> FracMul(y, s.gridSizeY),
   width |-> s.gridSizeX,
   height |-> s.gridSizeY,
   density |-> density,
   row |-> y,
   direction |-> IF y % 2 = 0 THEN 1 ELSE -1]

\* colorGroups is a Record<string, ColorGroup>: a sequence of groups in
\* insertion order, each key once.
GroupKeys(groups) == {groups[i].key : i \in DOMAIN groups}

GroupIndex(groups, key) == CHOOSE i \in DOMAIN groups : groups[i].key = key

\* colorGroups[key] = group
SetGroup(groups, group) ==
  IF group.key \in GroupKeys(groups)
  THEN [groups EXCEPT ![GroupIndex(groups, group.key)] = group]
  ELSE Append(groups, group)

\* colorGroups[key].points = [point]: the point replaces the ones pushed before.
PushPointReplacing(groups, key, point) ==
  [groups EXCEPT ![GroupIndex(groups, key)].points = <<point>>]

\* colorGroups[key].points.push(point)
PushPoint(groups, key, point) ==
  [groups EXCEPT ![GroupIndex(groups, key)].points = Append(@, point)]

(***************************************************************************)
(* Grayscale processor (processors/grayscale-processor.ts).                *)
(***************************************************************************)
\* minBright / maxBright start at 255 / 0.
minBright(pixels) == SetMin({255} \cup {pixels[i].brightness : i \in DOMAIN pixels})

maxBright(pixels) == SetMax({0} \cup {pixels[i].brightness : i \in DOMAIN pixels})

\* grayLevels[i] = Math.round(minBright + (i / (colorsAmt - 1)) * (maxBright - minBright)),
\* i = 0 .. colorsAmt - 1 (colorsAmt >= 2).
grayLevels(pixels, colorsAmt) ==
  [j \in 1..colorsAmt |->
     Round(minBright(pixels) * (colorsAmt - 1)
             + (j - 1) * (maxBright(pixels) - minBright(pixels)),
           colorsAmt - 1)]

\* grayLevels.reduce((prev, curr) => |curr - b| < |prev - b| ? curr : prev)
RECURSIVE ReduceNearestGray(_, _, _, _)
ReduceNearestGray(levels, j, prev, b) ==
  IF j > Len(levels) THEN prev
  ELSE ReduceNearestGray(levels, j + 1,
         IF Abs(levels[j] - b) < Abs(prev - b) THEN levels[j] ELSE prev, b)

\* nearestGray keeping the last of the levels that are equally near.
nearestGrayLast(levels, b) ==
  LET best == SetMin({Abs(levels[j] - b) : j \in DOMAIN levels})
  IN levels[SetMax({j \in DOMAIN levels : Abs(levels[j] - b) = best})]

nearestGray(levels, b) == ReduceNearestGray(levels, 2, levels[1], b)

GrayKey(grayValue) == STR_gray \o NumberToString(grayValue)

RECURSIVE InitGrayGroups(_, _)
InitGrayGroups(levels, j) ==
  IF j = 0 THEN <<>>
  ELSE SetGroup(InitGrayGroups(levels, j - 1),
         [key |-> GrayKey(levels[j]),
          color |-> rgbToHex(levels[j], levels[j], levels[j]),
          displayName |-> STR_Gray \o NumberToString(j) \o <<" ", "(">>
                            \o NumberToString(levels[j]) \o <<")">>,
          points |-> <<>>])

\* density = ensureEvenDensity(Math.round(minDensity
\*             + ((255 - grayValue) / 255) * (maxDensity - minDensity)))
\* even: the result passes through ensureEvenDensity (grayscale-processor.ts);
\* processGrayscale of image-processor.ts keeps the rounded value.
GrayDensity(grayValue, s, even) ==
  IF even
  THEN ensureEvenDensity(LinearDensity(s.minDensity, s.maxDensity, 255 - grayValue, 255))
  ELSE LinearDensity(s.minDensity, s.maxDensity, 255 - grayValue, 255)

RECURSIVE AssignGray(_, _, _, _, _, _)
AssignGray(groups, scan, j, levels, s, even) ==
  IF j > Len(scan) THEN groups
  ELSE LET pixel == scan[j]
           grayValue == nearestGray(levels, pixel.brightness)
       IN AssignGray(
            PushPoint(groups, GrayKey(grayValue),
                      MakePoint(pixel.x, pixel.y, s, GrayDensity(grayValue, s, even))),
            scan, j + 1, levels, s, even)

GrayscaleGroups(data, s, even) ==
  LET levels == grayLevels(data.pixels, s.colorsAmt)
  IN AssignGray(InitGrayGroups(levels, Len(levels)),
                GridScan(data.pixels, data.width, data.height, 0), 1, levels, s, even)

\* processGrayscale exported by processors/grayscale-processor.ts.
processGrayscale(data, s) == GrayscaleGroups(data, s, TRUE)

\* processGrayscale of image-processor.ts, the one processImage calls.
imageProcessor_processGrayscale(data, s) == GrayscaleGroups(data, s, FALSE)

(***************************************************************************)
(* Monochrome processor (image-processor.ts, processMonochrome).           *)
(***************************************************************************)
\* density = Math.round(minDensity + ((255 - brightness) / 255) * (maxDensity - minDensity))
MonochromeDensity(pixel, s) ==
  LinearDensity(s.minDensity, s.maxDensity, 255 - pixel.brightness, 255)

RECURSIVE AssignMonochrome(_, _, _, _)
AssignMonochrome(groups, scan, j, s) ==
  IF j > Len(scan) THEN groups
  ELSE AssignMonochrome(
         PushPoint(groups, STR_monochrome,
                   MakePoint(scan[j].x, scan[j].y, s, MonochromeDensity(scan[j], s))),
         scan, j + 1, s)

processMonochrome(data, s) ==
  AssignMonochrome(
    <<[key |-> STR_monochrome, color |-> s.monochromeColor,
       displayName |-> STR_Monochrome, points |-> <<>>]>>,
    GridScan(data.pixels, data.width, data.height, 0), 1, s)

(***************************************************************************)
(* CMYK processor (image-processor.ts, processCMYK).                       *)
(***************************************************************************)
CMYKGroups ==
  <<[key |-> STR_cyan, color |-> <<"#", "0", "0", "F", "F", "F", "F">>,
     displayName |-> <<"C", "y", "a", "n">>, points |-> <<>>],
    [key |-> STR_magenta, color |-> <<"#", "F", "F", "0", "0", "F", "F">>,
     displayName |-> <<"M", "a", "g", "e", "n", "t", "a">>, points |-> <<>>],
    [key |-> STR_yellow, color |-> <<"#", "F", "F", "F", "F", "0", "0">>,
     displayName |-> <<"Y", "e", "l", "l", "o", "w">>, points |-> <<>>],
    [key |-> STR_black, color |-> <<"#", "0", "0", "0", "0", "0", "0">>,
     displayName |-> <<"B", "l", "a", "c", "k">>, points |-> <<>>]>>

\* density = Math.round(minDensity + (value / 255) * (maxDensity - minDensity))
ChannelDensity(value, s) == LinearDensity(s.minDensity, s.maxDensity, value, 255)

\* PushChannels without the test value > 0: every channel receives a point.
RECURSIVE PushChannelsUnguarded(_, _, _, _, _)
PushChannelsUnguarded(groups, pixel, cmyk, c, s) ==
  IF c > Len(CMYKChannels) THEN groups
  ELSE PushChannelsUnguarded(
         PushPoint(groups, ChannelKey(CMYKChannels[c]),
                   MakePoint(pixel.x, pixel.y, s, ChannelDensity(cmyk[CMYKChannels[c]], s))),
         pixel, cmyk, c + 1, s)

\* Object.entries(cmyk).forEach(([channel, value]) => { if (value > 0) ... push ... })
RECURSIVE PushChannels(_, _, _, _, _)
PushChannels(groups, pixel, cmyk, c, s) ==
  IF c > Len(CMYKChannels) THEN groups
  ELSE LET value == cmyk[CMYKChannels[c]]
       IN PushChannels(
            IF value > 0
            THEN PushPoint(groups, ChannelKey(CMYKChannels[c]),
                           MakePoint(pixel.x, pixel.y, s, ChannelDensity(value, s)))
            ELSE groups,
            pixel, cmyk, c + 1, s)

RECURSIVE AssignCMYK(_, _, _, _)
AssignCMYK(groups, scan, j, s) ==
  IF j > Len(scan) THEN groups
  ELSE AssignCMYK(
         PushChannels(groups, scan[j], rgbToCMYK(scan[j].r, scan[j].g, scan[j].b), 1, s),
         scan, j + 1, s)

processCMYK(data, s) ==
  AssignCMYK(CMYKGroups, GridScan(data.pixels, data.width, data.height, 0), 1, s)

(***************************************************************************)
(* k-means clustering (utils/math-utils.ts).                               *)
(* A centroid is a colour whose three channels are fractions with one      *)
(* common denominator: [s |-> <<s1, s2, s3>>, n |-> n] stands for           *)
(* (s1/n, s2/n, s3/n).  Distances are compared by their squares,           *)
(* cross-multiplied; the comparison is exact where the code compares       *)
(* IEEE square roots.                                                      *)
(***************************************************************************)
maxColorsToProcess == 10000

maxIterations == 10

Centroid(color) == [s |-> color, n |-> 1]

\* colorsToProcess: every step-th colour when there are more than
\* maxColorsToProcess of them.
SampleColors(colors) ==
  IF Len(colors) > maxColorsToProcess
  THEN LET step == Len(colors) \div maxColorsToProcess
           count == ((Len(colors) - 1) \div step) + 1
       IN [j \in 1..count |-> colors[(j - 1) * step + 1]]
  ELSE colors

\* colorDistance(color, centroid)^2 * centroid.n^2
ScaledSquareDistance(color, centroid) ==
  (color[1] * centroid.n - centroid.s[1]) * (color[1] * centroid.n - centroid.s[1])
  + (color[2] * centroid.n - centroid.s[2]) * (color[2] * centroid.n - centroid.s[2])
  + (color[3] * centroid.n - centroid.s[3]) * (color[3] * centroid.n - centroid.s[3])

\* colorDistance(color, a) < colorDistance(color, b)
CloserThan(color, a, b) ==
  ScaledSquareDistance(color, a) * b.n * b.n < ScaledSquareDistance(color, b) * a.n * a.n

\* centroids.forEach((centroid, i) => { if (dist < minDist) { minDist = dist; nearestIndex = i } })
RECURSIVE ScanNearest(_, _, _, _)
ScanNearest(color, centroids, i, nearestIndex) ==
  IF i > Len(centroids) THEN nearestIndex
  ELSE ScanNearest(color, centroids, i + 1,
         IF CloserThan(color, centroids[i], centroids[nearestIndex]) THEN i ELSE nearestIndex)

\* findNearestCentroidIndex taking the last of the centroids that are equally near.
findNearestCentroidIndexLast(color, centroids) ==
  SetMax({i \in DOMAIN centroids :
            \A j \in DOMAIN centroids : ~CloserThan(color, centroids[j], centroids[i])})

\* Index (from 1) of the nearest centroid; minDist starts at +Infinity, so the
\* first centroid is taken first.
findNearestCentroidIndex(color, centroids) == ScanNearest(color, centroids, 2, 1)

findNearestCentroid(color, centroids) == centroids[findNearestCentroidIndex(color, centroids)]

RECURSIVE SumChannel(_, _, _)
SumChannel(colors, ch, j) ==
  IF j = 0 THEN 0 ELSE colors[j][ch] + SumChannel(colors, ch, j - 1)

averageColor(colors) ==
  [s |-> <<SumChannel(colors, 1, Len(colors)), SumChannel(colors, 2, Len(colors)),
           SumChannel(colors, 3, Len(colors))>>,
   n |-> Len(colors)]

\* centroidsEqual without the tolerance: every channel has to be the same.
centroidsEqualExact(c1, c2) ==
  /\ Len(c1) = Len(c2)
  /\ \A i \in DOMAIN c1 : \A ch \in 1..3 :
       c1[i].s[ch] * c2[i].n = c2[i].s[ch] * c1[i].n

centroidsEqual(c1, c2) ==
  /\ Len(c1) = Len(c2)
  /\ \A i \in DOMAIN c1 : \A ch \in 1..3 :
       Abs(c1[i].s[ch] * c2[i].n - c2[i].s[ch] * c1[i].n) < c1[i].n * c2[i].n

\* clusters[i]: the colours whose nearest centroid is i, in input order.
Cluster(colors, centroids, i) ==
  SelectSeq(colors, LAMBDA color : findNearestCentroidIndex(color, centroids) = i)

\* One pass of the loop body: clusters.map((cluster, i) =>
\*   cluster.length === 0 ? oldCentroids[i] : averageColor(cluster)),
\* where oldCentroids is the copy of centroids made at the top of the pass.
UpdateCentroids(colors, k, centroids) ==
  [i \in 1..k |->
     IF Cluster(colors, centroids, i) = <<>> THEN centroids[i]
     ELSE averageColor(Cluster(colors, centroids, i))]

\* while (iterations < maxIterations && !centroidsEqual(centroids, oldCentroids))
LoopContinues(centroids, oldCentroids, iterations) ==
  iterations < maxIterations /\ ~centroidsEqual(centroids, oldCentroids)

RECURSIVE RefineCentroids(_, _, _, _, _)
RefineCentroids(colors, k, centroids, oldCentroids, iterations) ==
  IF LoopContinues(centroids, oldCentroids, iterations)
  THEN RefineCentroids(colors, k, UpdateCentroids(colors, k, centroids),
                       centroids, iterations + 1)
  ELSE centroids

\* The sequences of initial centroids the random selection can produce:
\* min(k, number of colours) different colours of the input, in any order.
InitialCentroidChoices(colors, k) ==
  LET m == IF k < Len(colors) THEN k ELSE Len(colors)
  IN {[j \in 1..m |-> Centroid(colors[pick[j]])] :
        pick \in {p \in [1..m -> DOMAIN colors] :
                    \A a, b \in 1..m : a # b => p[a] # p[b]}}

\* while (centroids.length < k) centroids.push([...centroids[centroids.length - 1]])
\* throws a TypeError when centroids is empty.
kMeansThrows(colors, k) == SampleColors(colors) = <<>> /\ k > 0

PadCentroids(initial, k) ==
  [i \in 1..k |-> IF i <= Len(initial) THEN initial[i] ELSE initial[Len(initial)]]

\* kMeansClustering(colors, k) for one outcome of the random selection.
kMeansClustering(colors, k, initial) ==
  LET final == RefineCentroids(SampleColors(colors), k, PadCentroids(initial, k), <<>>, 0)
  IN [i \in 1..k |->
        <<Round(final[i].s[1], final[i].n), Round(final[i].s[2], final[i].n),
          Round(final[i].s[3], final[i].n)>>]

(***************************************************************************)
(* Posterize processor (image-processor.ts, processPosterize).             *)
(***************************************************************************)
STR_color == <<"c", "o", "l", "o", "r", "-">>

STR_Color == <<"C", "o", "l", "o", "r", " ">>

PosterizeKey(c) ==
  STR_color \o NumberToString(c[1]) \o <<"-">> \o NumberToString(c[2])
    \o <<"-">> \o NumberToString(c[3])

RECURSIVE uniqueColors(_, _)
uniqueColors(scan, j) ==
  IF j = 0 THEN <<>>
  ELSE LET before == uniqueColors(scan, j - 1)
           c == <<scan[j].r, scan[j].g, scan[j].b>>
       IN IF \E i \in DOMAIN before : before[i] = c THEN before ELSE Append(before, c)

RECURSIVE InitPosterizeGroups(_, _)
InitPosterizeGroups(centroids, j) ==
  IF j = 0 THEN <<>>
  ELSE SetGroup(InitPosterizeGroups(centroids, j - 1),
         [key |-> PosterizeKey(centroids[j]),
          color |-> rgbToHex(centroids[j][1], centroids[j][2], centroids[j][3]),
          displayName |-> STR_Color \o NumberToString(j),
          points |-> <<>>])

\* brightness = r*0.299 + g*0.587 + b*0.114 of the centroid;
\* density = Math.round(minDensity + ((255 - brightness)/255) * (maxDensity - minDensity))
PosterizeDensity(c, s) ==
  LinearDensity(s.minDensity, s.maxDensity,
                255 * 1000 - (299 * c[1] + 587 * c[2] + 114 * c[3]), 255 * 1000)

RECURSIVE AssignPosterize(_, _, _, _, _)
AssignPosterize(groups, scan, j, centroids, s) ==
  IF j > Len(scan) THEN groups
  ELSE LET pixel == scan[j]
           nearest == findNearestCentroid(<<pixel.r, pixel.g, pixel.b>>,
                        [i \in DOMAIN centroids |-> Centroid(centroids[i])])
           c == nearest.s
       IN AssignPosterize(
            PushPoint(groups, PosterizeKey(c), MakePoint(pixel.x, pixel.y, s, PosterizeDensity(c, s))),
            scan, j + 1, centroids, s)

PosterizeColors(data) ==
  LET scan == GridScan(data.pixels, data.width, data.height, 0)
  IN uniqueColors(scan, Len(scan))

\* processPosterize for one outcome of the random selection inside kMeansClustering.
processPosterize(data, s, initial) ==
  LET centroids == kMeansClustering(PosterizeColors(data), s.colorsAmt, initial)
  IN AssignPosterize(InitPosterizeGroups(centroids, Len(centroids)),
                     GridScan(data.pixels, data.width, data.height, 0), 1, centroids, s)

(***************************************************************************)
(* processImage (image-processor.ts): img.onload samples the image, the    *)
(* deferred step (setTimeout 0) runs the mode processor.                   *)
(***************************************************************************)
\* An input of the pipeline: the decoded image (its size and the RGBA
\* content of the columns x rows grid canvas) and the caller's Settings.
Input(image, s) == [img |-> image, settings |-> s]

\* The Settings object of the Home component with the fields the core reads.
MakeSettings(mode, colorsAmt, minDensity, maxDensity, cols, rows) ==
  [gridSizeX |-> Frac(10, 1), gridSizeY |-> Frac(10, 1),
   brightnessThreshold |-> 255,
   minDensity |-> minDensity, maxDensity |-> maxDensity,
   rowsCount |-> rows, columnsCount |-> cols,
   invert |-> FALSE,
   continuousPaths |-> TRUE, curvedPaths |-> FALSE,
   pathDistanceThreshold |-> 10,
   processingMode |-> mode, colorsAmt |-> colorsAmt,
   monochromeColor |-> <<"#", "0", "0", "0", "0", "0", "0">>,
   visiblePaths |-> <<>>]

Gray(v) == [r |-> v, g |-> v, b |-> v, a |-> 255]

RGB(r, g, b) == [r |-> r, g |-> g, b |-> b, a |-> 255]

\* All rasters of cols x rows cells over a palette.
Rasters(cols, rows, palette) == [1..(cols * rows) -> palette]

\* The promise processImage returns.  calls lists the calls of resolve and
\* reject the executor made, in order; only the first call settles it.
Pending == [state |-> "pending", reason |-> <<>>, calls |-> <<>>]

\* resolve(processedImageData): the value is the object held in imageData.
resolve(p) ==
  [state |-> IF p.state = "pending" THEN "fulfilled" ELSE p.state,
   reason |-> p.reason,
   calls |-> Append(p.calls, "resolve")]

reject(p, error) ==
  [state |-> IF p.state = "pending" THEN "rejected" ELSE p.state,
   reason |-> IF p.state = "pending" THEN <<error>> ELSE p.reason,
   calls |-> Append(p.calls, "reject")]

\* new Error(message)
Error(message) == [name |-> "Error", message |-> message]

\* What the canvas API does during img.onload: "ok", getContext("2d")
\* returns null for the first canvas ("noContext") or for the grid canvas
\* ("noGridContext"), or drawImage / getImageData throws ("throws").
CanvasOutcomes == {"ok", "noContext", "noGridContext", "throws"}

\* Onload in which a missing 2D context is reported by reject but does not
\* end the handler: the image is sampled and the deferred step scheduled.
OnloadContinues(inputs) ==
  /\ pc = "idle"
  /\ \E in \in inputs, canvas \in CanvasOutcomes :
       LET s == in.settings
           d == calculateResizeDimensions(in.img.width, in.img.height,
                                          s.columnsCount, s.rowsCount)
           s2 == [s EXCEPT !.gridSizeX = d.gridSizeX, !.gridSizeY = d.gridSizeY]
       IN /\ settings' = s2
          /\ img' = in.img
          /\ imageData' =
               IF canvas = "throws" THEN imageData
               ELSE
               [kind |-> "imageData",
                width |-> d.columnsCount, height |-> d.rowsCount,
                pixels |-> SamplePixels(in.img.raster, d.columnsCount, d.rowsCount, s2, 0),
                originalWidth |-> in.img.width, originalHeight |-> in.img.height,
                resizedWidth |-> d.resizedWidth, resizedHeight |-> d.resizedHeight,
                outputWidth |-> d.outputWidth, outputHeight |-> d.outputHeight,
                columnsCount |-> d.columnsCount, rowsCount |-> d.rowsCount,
                tileWidth |-> Frac(d.outputWidth, d.columnsCount),
                tileHeight |-> Frac(d.outputHeight, d.rowsCount),
                hasColorGroups |-> FALSE, colorGroups |-> <<>>]
          /\ promise' =
               CASE canvas = "ok" -> promise
                 [] canvas = "noContext" ->
                      reject(promise, Error("Could not get canvas context"))
                 [] canvas = "noGridContext" ->
                      reject(promise, Error("Could not get grid canvas context"))
                 [] canvas = "throws" -> reject(promise, Error("thrown"))
          /\ pc' = IF canvas = "throws" THEN "rejected" ELSE "sampled"
  /\ UNCHANGED <<svgContent, extracted, dimCall, nearestCall, kmeans, home, loader>>

Onload(inputs) ==
  /\ pc = "idle"
  /\ \E in \in inputs, canvas \in CanvasOutcomes :
       LET s == in.settings
           d == calculateResizeDimensions(in.img.width, in.img.height,
                                          s.columnsCount, s.rowsCount)
           s2 == [s EXCEPT !.gridSizeX = d.gridSizeX, !.gridSizeY = d.gridSizeY]
       IN /\ settings' = s2
          /\ img' = in.img
          /\ imageData' =
               IF canvas # "ok" THEN imageData
               ELSE
               [kind |-> "imageData",
                width |-> d.columnsCount, height |-> d.rowsCount,
                pixels |-> SamplePixels(in.img.raster, d.columnsCount, d.rowsCount, s2, 0),
                originalWidth |-> in.img.width, originalHeight |-> in.img.height,
                resizedWidth |-> d.resizedWidth, resizedHeight |-> d.resizedHeight,
                outputWidth |-> d.outputWidth, outputHeight |-> d.outputHeight,
                columnsCount |-> d.columnsCount, rowsCount |-> d.rowsCount,
                tileWidth |-> Frac(d.outputWidth, d.columnsCount),
                tileHeight |-> Frac(d.outputHeight, d.rowsCount),
                hasColorGroups |-> FALSE, colorGroups |-> <<>>]
          /\ promise' =
               CASE canvas = "ok" -> promise
                 [] canvas = "noContext" ->
                      reject(promise, Error("Could not get canvas context"))
                 [] canvas = "noGridContext" ->
                      reject(promise, Error("Could not get grid canvas context"))
                 [] canvas = "throws" -> reject(promise, Error("thrown"))
          /\ pc' = IF canvas = "ok" THEN "sampled" ELSE "rejected"
  /\ UNCHANGED <<svgContent, extracted, dimCall, nearestCall, kmeans, home, loader>>

\* img.onerror
Onerror ==
  /\ pc = "idle"
  /\ promise' = reject(promise, Error("Failed to load image"))
  /\ pc' = "rejected"
  /\ UNCHANGED <<settings, imageData, svgContent, extracted, dimCall, img, nearestCall, kmeans, home, loader>>

\* switch (settings.processingMode) { ... } inside try { ... } catch (error)
\* { reject(error) }: the colour groups the processor can return, or the
\* exception it throws.
ModeOutcomes(data, s) ==
  CASE s.processingMode = "grayscale" ->
         {[kind |-> "groups", groups |-> imageProcessor_processGrayscale(data, s)]}
    [] s.processingMode = "cmyk" ->
         {[kind |-> "groups", groups |-> processCMYK(data, s)]}
    [] s.processingMode = "monochrome" ->
         {[kind |-> "groups", groups |-> processMonochrome(data, s)]}
    [] s.processingMode = "posterize" ->
         IF kMeansThrows(PosterizeColors(data), s.colorsAmt)
         THEN {[kind |-> "throw"]}
         ELSE {[kind |-> "groups", groups |-> processPosterize(data, s, initial)] :
                 initial \in InitialCentroidChoices(PosterizeColors(data), s.colorsAmt)}

\* The deferred step calling resolve whatever the mode processor did.
DeferredProcessResolving ==
  /\ pc = "sampled"
  /\ \E out \in ModeOutcomes(imageData, settings) :
       /\ imageData' = IF out.kind = "throw" THEN imageData
                       ELSE [imageData EXCEPT !.hasColorGroups = TRUE,
                                              !.colorGroups = out.groups]
       /\ pc' = IF out.kind = "throw" THEN "rejected" ELSE "processed"
       /\ promise' = resolve(promise)
  /\ UNCHANGED <<settings, svgContent, extracted, dimCall, img, nearestCall, kmeans, home, loader>>

DeferredProcess ==
  /\ pc = "sampled"
  /\ \E out \in ModeOutcomes(imageData, settings) :
       /\ imageData' = IF out.kind = "throw" THEN imageData
                       ELSE [imageData EXCEPT !.hasColorGroups = TRUE,
                                              !.colorGroups = out.groups]
       /\ pc' = IF out.kind = "throw" THEN "rejected" ELSE "processed"
       /\ promise' = IF out.kind = "throw" THEN reject(promise, Error("thrown"))
                     ELSE resolve(promise)
  /\ UNCHANGED <<settings, svgContent, extracted, dimCall, img, nearestCall, kmeans, home, loader>>

\* processGrayscale of processors/grayscale-processor.ts applied to the
\* sampled ImageData.
CallProcessGrayscale ==
  /\ pc = "sampled"
  /\ settings.processingMode = "grayscale"
  /\ imageData' = [imageData EXCEPT !.hasColorGroups = TRUE,
                                    !.colorGroups = processGrayscale(imageData, settings)]
  /\ pc' = "processed"
  /\ UNCHANGED <<settings, svgContent, extracted, dimCall, promise, img, nearestCall, kmeans, home, loader>>

InitPipeline ==
  /\ home = None
  /\ loader = None
  /\ pc = "idle"
  /\ settings = None
  /\ imageData = None
  /\ svgContent = None
  /\ extracted = None
  /\ dimCall = None
  /\ nearestCall = None
  /\ kmeans = None
  /\ promise = Pending
  /\ img = None

(***************************************************************************)
(* Specification of the Dimension Calculator alone.                        *)
(***************************************************************************)
InitDim ==
  /\ home = None
  /\ loader = None
  /\ pc = "dim"
  /\ nearestCall = None
  /\ kmeans = None
  /\ settings = None
  /\ imageData = None
  /\ svgContent = None
  /\ extracted = None
  /\ promise = None
  /\ img = None
  /\ \E w \in 1..MaxOriginalDim, h \in 1..MaxOriginalDim,
        c \in 1..MaxGridCount, r \in 1..MaxGridCount :
       dimCall = [kind |-> "call", originalWidth |-> w, originalHeight |-> h,
                  columnsCount |-> c, rowsCount |-> r]

CallCalculateResizeDimensions ==
  /\ pc = "dim"
  /\ dimCall.kind = "call"
  /\ dimCall' = [kind |-> "returned",
                 originalWidth |-> dimCall.originalWidth,
                 originalHeight |-> dimCall.originalHeight,
                 result |-> calculateResizeDimensions(
                              dimCall.originalWidth, dimCall.originalHeight,
                              dimCall.columnsCount, dimCall.rowsCount)]
  /\ UNCHANGED <<pc, settings, imageData, svgContent, extracted, promise, img, nearestCall, kmeans, home, loader>>

NextDim == CallCalculateResizeDimensions

SpecDim == InitDim /\ [][NextDim]_vars

(***************************************************************************)
(* Specification of the grayscale and monochrome processors.               *)
(***************************************************************************)
\* columnsCount and rowsCount of the inputs.
GrayGrid == <<2, 2>>

MaxDensity == 4

MaxGrayLevels == 2

GrayPalette == {Gray(0), Gray(85), Gray(170), Gray(255)}

GrayInputs ==
  {Input([width |-> 1, height |-> 1, raster |-> ra],
         MakeSettings(m[1], m[2], mn, mx, GrayGrid[1], GrayGrid[2])) :
     ra \in Rasters(GrayGrid[1], GrayGrid[2], GrayPalette),
     m \in ({"grayscale"} \X (2..MaxGrayLevels)) \cup {<<"monochrome", 2>>},
     mn \in 0..MaxDensity, mx \in 0..MaxDensity}

OnloadGray == Onload(GrayInputs)

NextGray == OnloadGray \/ DeferredProcess \/ CallProcessGrayscale

SpecGray == InitPipeline /\ [][NextGray]_vars

\* Every PathPoint of every colour group.
AllPoints(groups) ==
  UNION {{groups[i].points[j] : j \in DOMAIN groups[i].points} : i \in DOMAIN groups}

(***************************************************************************)
(* C5.  Dimension Calculator: for every original width and height the      *)
(* output canvas has outputWidth <= 560 and outputHeight <= 560, the       *)
(* longer image axis is 560 and the other axis is 560 scaled by the aspect *)
(* ratio (rounded); a square image gives 560 x 560.                        *)
(***************************************************************************)
DimensionsBoundedByMax ==
  dimCall.kind = "returned" =>
    LET w == dimCall.originalWidth
        h == dimCall.originalHeight
        out == dimCall.result
    IN /\ out.outputWidth <= MAX_DIMENSION
       /\ out.outputHeight <= MAX_DIMENSION
       /\ w >= h => /\ out.outputWidth = MAX_DIMENSION
                    /\ out.outputHeight = Round(MAX_DIMENSION * h, w)
       /\ w <= h => /\ out.outputHeight = MAX_DIMENSION
                    /\ out.outputWidth = Round(MAX_DIMENSION * w, h)

(***************************************************************************)
(* C2.  Density bounds: every PathPoint produced by a mode processor has   *)
(* an integer density with 0 <= density <= maxDensity, for any             *)
(* non-negative minDensity and maxDensity.                                 *)
(***************************************************************************)
DensityWithinBounds ==
  pc = "processed" =>
    \A p \in AllPoints(imageData.colorGroups) :
      /\ p.density \in Int
      /\ 0 <= p.density
      /\ p.density <= settings.maxDensity

(***************************************************************************)
(* C6.  Grayscale density endpoints: the points of a gray level get the    *)
(* density given by linear interpolation of (255 - gray)/255 into          *)
(* [minDensity, maxDensity]; for the 2x2 image with brightness 0, 85, 170, *)
(* 255, colorsAmt = 2, minDensity = 1, maxDensity = 4 there are exactly 2  *)
(* gray groups, the darkest with density 4 and the brightest with          *)
(* density 1.                                                              *)
(***************************************************************************)
GroupOfKey(groups, key) == groups[GroupIndex(groups, key)]

PointDensities(group) == {group.points[j].density : j \in DOMAIN group.points}

IsGrayScenario ==
  /\ pc = "processed"
  /\ settings.processingMode = "grayscale"
  /\ settings.colorsAmt = 2
  /\ settings.minDensity = 1
  /\ settings.maxDensity = 4
  /\ [i \in DOMAIN imageData.pixels |-> imageData.pixels[i].brightness]
       = <<0, 85, 170, 255>>

GrayscaleDensityEndpoints ==
  IsGrayScenario =>
    /\ Len(imageData.colorGroups) = 2
    /\ PointDensities(GroupOfKey(imageData.colorGroups, GrayKey(0)))
         = {LinearDensity(1, 4, 255 - 0, 255)}
    /\ PointDensities(GroupOfKey(imageData.colorGroups, GrayKey(0))) = {4}
    /\ PointDensities(GroupOfKey(imageData.colorGroups, GrayKey(255)))
         = {LinearDensity(1, 4, 255 - 255, 255)}
    /\ PointDensities(GroupOfKey(imageData.colorGroups, GrayKey(255))) = {1}

(***************************************************************************)
(* Specification of the CMYK processor.                                    *)
(***************************************************************************)
\* columnsCount and rowsCount of the inputs.
CmykGrid == <<2, 2>>

CmykMaxDensity == 1

\* Black, pure red, white, a dark and a light mixed colour.
CmykPalette ==
  {RGB(0, 0, 0), RGB(255, 0, 0), RGB(255, 255, 255), RGB(120, 40, 0), RGB(255, 128, 0)}

CmykInputs ==
  {Input([width |-> 1, height |-> 1, raster |-> ra],
         MakeSettings("cmyk", 2, mn, mx, CmykGrid[1], CmykGrid[2])) :
     ra \in Rasters(CmykGrid[1], CmykGrid[2], CmykPalette),
     mn \in 0..CmykMaxDensity, mx \in 0..CmykMaxDensity}

OnloadCmyk == Onload(CmykInputs)

NextCmyk == OnloadCmyk \/ DeferredProcess

SpecCmyk == InitPipeline /\ [][NextCmyk]_vars

(***************************************************************************)
(* C8.  CMYK separation: processCMYK returns exactly the groups cyan,      *)
(* magenta, yellow, black; a channel's group receives a point for a pixel  *)
(* if and only if the pixel's converted channel value is greater than 0;   *)
(* (255,0,0) converts to c=0, m=255, y=255, k=0 and gives a point to       *)
(* magenta and yellow only, (0,0,0) gives a point to black only.           *)
(***************************************************************************)
\* The points of a group that were pushed for grid cell (x, y).
PointsOfCell(group, x, y) ==
  {j \in DOMAIN group.points :
     /\ group.points[j].row = y
     /\ group.points[j].x = MakePoint(x, y, settings, 0).x}

ChannelsWithPoint(pixel) ==
  {ch \in {"cyan", "magenta", "yellow", "black"} :
     PointsOfCell(GroupOfKey(imageData.colorGroups, ChannelKey(ch)), pixel.x, pixel.y) # {}}

CMYKSeparation ==
  (pc = "processed" /\ settings.processingMode = "cmyk") =>
    /\ [i \in DOMAIN imageData.colorGroups |-> imageData.colorGroups[i].key]
         = <<STR_cyan, STR_magenta, STR_yellow, STR_black>>
    /\ \A i \in DOMAIN imageData.pixels :
         LET pixel == imageData.pixels[i]
             cmyk == rgbToCMYK(pixel.r, pixel.g, pixel.b)
         IN /\ \A ch \in {"cyan", "magenta", "yellow", "black"} :
                 /\ cmyk[ch] \in 0..255
                 /\ Cardinality(PointsOfCell(
                      GroupOfKey(imageData.colorGroups, ChannelKey(ch)), pixel.x, pixel.y))
                      = IF cmyk[ch] > 0 THEN 1 ELSE 0
            /\ (pixel.r = 255 /\ pixel.g = 0 /\ pixel.b = 0) =>
                 /\ cmyk = [cyan |-> 0, magenta |-> 255, yellow |-> 255, black |-> 0]
                 /\ ChannelsWithPoint(pixel) = {"magenta", "yellow"}
            /\ (pixel.r = 0 /\ pixel.g = 0 /\ pixel.b = 0) =>
                 /\ cmyk = [cyan |-> 0, magenta |-> 0, yellow |-> 0, black |-> 255]
                 /\ ChannelsWithPoint(pixel) = {"black"}

\* A processed CMYK image with a pure red and a black pixel.
CMYKSeparationWitness ==
  /\ pc = "processed"
  /\ settings.processingMode = "cmyk"
  /\ \E i, j \in DOMAIN imageData.pixels :
       /\ imageData.pixels[i].r = 255 /\ imageData.pixels[i].g = 0
       /\ imageData.pixels[i].b = 0
       /\ imageData.pixels[j].r = 0 /\ imageData.pixels[j].g = 0
       /\ imageData.pixels[j].b = 0
       /\ ChannelsWithPoint(imageData.pixels[i]) = {"magenta", "yellow"}
       /\ ChannelsWithPoint(imageData.pixels[j]) = {"black"}

(***************************************************************************)
(* Specification of the posterize processor.                               *)
(***************************************************************************)
\* columnsCount and rowsCount of the inputs.
PosterizeGrid == <<5, 1>>

PosterizeMaxColors == 2

PosterizeMaxDensity == 1

\* Five close colours; their brightness is 10 or 11.
PosterizePalette ==
  <<RGB(10, 10, 11), RGB(10, 11, 10), RGB(10, 11, 11), RGB(10, 12, 11), RGB(11, 11, 11)>>

\* The rasters in which cell i holds colour i of the palette or repeats the
\* first colour: images of 1 up to Len(PosterizePalette) distinct colours.
PosterizeRasters ==
  {ra \in Rasters(PosterizeGrid[1], PosterizeGrid[2],
                  {PosterizePalette[i] : i \in DOMAIN PosterizePalette}) :
     \A i \in DOMAIN ra :
       ra[i] \in {PosterizePalette[1],
                  PosterizePalette[((i - 1) % Len(PosterizePalette)) + 1]}}

\* brightnessThreshold 255 retains every pixel, 0 retains none of these.
PosterizeInputs ==
  {Input([width |-> 1, height |-> 1, raster |-> ra],
         [MakeSettings("posterize", k, 0, mx, PosterizeGrid[1], PosterizeGrid[2])
            EXCEPT !.brightnessThreshold = th]) :
     ra \in PosterizeRasters, k \in 1..PosterizeMaxColors,
     mx \in 1..PosterizeMaxDensity, th \in {0, 255}}

OnloadPosterize == Onload(PosterizeInputs)

NextPosterize == OnloadPosterize \/ DeferredProcess

SpecPosterize == InitPipeline /\ [][NextPosterize]_vars

(***************************************************************************)
(* C7.  Posterize group count: for every set of retained pixels and every  *)
(* colorsAmt >= 1, processPosterize returns exactly                        *)
(* min(colorsAmt, number of distinct RGB colours among the pixels) colour  *)
(* groups.                                                                 *)
(***************************************************************************)
DistinctColors(pixels) == {<<pixels[i].r, pixels[i].g, pixels[i].b>> : i \in DOMAIN pixels}

PosterizeGroupCount ==
  (pc = "processed" /\ settings.processingMode = "posterize") =>
    Len(imageData.colorGroups)
      = SetMin({settings.colorsAmt, Cardinality(DistinctColors(imageData.pixels))})

(***************************************************************************)
(* SVG generation (utils/svg-utils.ts and image-processor.ts).             *)
(* Coordinates are exact fractions <<n, d>> with d > 0, reduced when they  *)
(* are written into path data, so that equal numbers are equal values.     *)
(* A d attribute is the sequence of its commands.                          *)
(***************************************************************************)
RECURSIVE GCD(_, _)
GCD(a, b) == IF b = 0 THEN a ELSE GCD(b, a % b)

NormFrac(f) ==
  LET g == GCD(Abs(f[1]), f[2])
  IN <<f[1] \div g, f[2] \div g>>

FracAdd(f, g) == <<f[1] * g[2] + g[1] * f[2], f[2] * g[2]>>

FracSub(f, g) == <<f[1] * g[2] - g[1] * f[2], f[2] * g[2]>>

FracLess(f, g) == f[1] * g[2] < g[1] * f[2]

\* A comparison that never finds two points too far apart.
DistanceNeverExceeds(x1, y1, x2, y2, threshold) == FALSE

\* calculateDistance(x1, y1, x2, y2) > threshold, compared by the squares:
\* (x2 - x1)^2 + (y2 - y1)^2 > threshold^2.
DistanceExceeds(x1, y1, x2, y2, threshold) ==
  LET dx == FracSub(x2, x1)
      dy == FracSub(y2, y1)
  IN IF threshold < 0 THEN TRUE
     ELSE dx[1] * dx[1] * dy[2] * dy[2] + dy[1] * dy[1] * dx[2] * dx[2]
            > threshold * threshold * dx[2] * dx[2] * dy[2] * dy[2]

\* The comparator of points.sort is negative for (a, b).
PointBefore(a, b) ==
  IF a.row # b.row THEN a.row < b.row
  ELSE IF a.row % 2 = 0 THEN FracLess(a.x, b.x) ELSE FracLess(b.x, a.x)

\* A sort that leaves the points in the reverse of their order: applied to
\* its own result it gives a different list.
RECURSIVE SortPointsReversing(_)
SortPointsReversing(points) ==
  IF points = <<>> THEN <<>>
  ELSE <<points[Len(points)]>> \o SortPointsReversing(SubSeq(points, 1, Len(points) - 1))

\* points.sort(...): a stable sort.
RECURSIVE SortPoints(_)
SortPoints(points) ==
  IF points = <<>> THEN <<>>
  ELSE LET sorted == SortPoints(SubSeq(points, 1, Len(points) - 1))
           p == points[Len(points)]
           after == {i \in DOMAIN sorted : PointBefore(p, sorted[i])}
           at == IF after = {} THEN Len(sorted) + 1 ELSE SetMin(after)
       IN SubSeq(sorted, 1, at - 1) \o <<p>> \o SubSeq(sorted, at, Len(sorted))

Cmd(op, x, y) == [op |-> op, x |-> NormFrac(x), y |-> NormFrac(y)]

\* x + k * (width / density) * direction
OffsetX(x, width, density, k, direction) ==
  FracAdd(x, <<k * direction * width[1], width[2] * density>>)

\* The straight-line loop without the horizontal stroke that closes the
\* last segment.
RECURSIVE StraightSegmentsOpen(_, _, _, _, _, _, _)
StraightSegmentsOpen(x, y, width, height, density, direction, i) ==
  IF i >= density THEN <<>>
  ELSE LET currentX == OffsetX(x, width, density, i, direction)
           nextX == OffsetX(x, width, density, i + 1, direction)
           lineY == IF i % 2 = 0 THEN FracAdd(y, height) ELSE y
       IN <<Cmd("L", currentX, lineY)>>
          \o (IF i < density - 1 THEN <<Cmd("L", nextX, lineY)>> ELSE <<>>)
          \o StraightSegmentsOpen(x, y, width, height, density, direction, i + 1)

\* The straight-line loop of createTilePathDataWithTangent and of
\* generateSerpentinePath (svg-utils.ts), with tileHeightScale 1.0.
RECURSIVE StraightSegments(_, _, _, _, _, _, _)
StraightSegments(x, y, width, height, density, direction, i) ==
  IF i >= density THEN <<>>
  ELSE LET currentX == OffsetX(x, width, density, i, direction)
           nextX == OffsetX(x, width, density, i + 1, direction)
           lineY == IF i % 2 = 0 THEN FracAdd(y, height) ELSE y
           closing == \/ i < density - 1
                      \/ (i % 2 = 0 /\ density % 2 = 1)
                      \/ (i % 2 = 1 /\ density % 2 = 0)
       IN <<Cmd("L", currentX, lineY)>>
          \o (IF closing THEN <<Cmd("L", nextX, lineY)>> ELSE <<>>)
          \o StraightSegments(x, y, width, height, density, direction, i + 1)

\* The curved loop of createTilePathDataWithTangent and of
\* generateSerpentinePath (svg-utils.ts), with tileHeightScale 1.0: per
\* segment one vertical curve ending at (currentX, endY) and, before the last
\* segment, one horizontal curve ending at (nextX, currentY).  A "C" command
\* records its end point; its two control points are written but their values
\* are not modelled.
RECURSIVE CurvedSegments(_, _, _, _, _, _, _, _, _)
CurvedSegments(x, width, height, density, direction, i, currentX, currentY, isDown) ==
  IF i >= density THEN <<>>
  ELSE LET nextX == OffsetX(x, width, density, i + 1, direction)
           endY == IF isDown THEN FracAdd(currentY, height)
                   ELSE FracSub(currentY, height)
           more == i < density - 1
       IN <<Cmd("C", currentX, endY)>>
          \o (IF more THEN <<Cmd("C", nextX, endY)>> ELSE <<>>)
          \o CurvedSegments(x, width, height, density, direction, i + 1,
                            IF more THEN nextX ELSE currentX, endY, ~isDown)

CurvedTile(x, y, width, height, density, direction) ==
  CurvedSegments(x, width, height, density, direction, 0, x, y, TRUE)

\* createTilePathDataWithTangent moving to the anchor of every tile.
createTilePathDataWithTangentMoving(x, y, width, height, density, direction, isFirst, useCurvedPaths) ==
  IF density <= 0 THEN <<>>
  ELSE <<Cmd("M", x, y)>>
       \o (IF useCurvedPaths THEN CurvedTile(x, y, width, height, density, direction)
           ELSE StraightSegments(x, y, width, height, density, direction, 0))

\* pathSegment of createTilePathDataWithTangent.
createTilePathDataWithTangent(x, y, width, height, density, direction, isFirst, useCurvedPaths) ==
  IF density <= 0 THEN <<>>
  ELSE (IF isFirst THEN <<Cmd("M", x, y)>> ELSE <<>>)
       \o (IF useCurvedPaths THEN CurvedTile(x, y, width, height, density, direction)
           ELSE StraightSegments(x, y, width, height, density, direction, 0))

\* The zigzag loop of createTilePathData and generateSerpentinePath
\* (image-processor.ts).
RECURSIVE ZigzagSegments(_, _, _, _, _, _, _)
ZigzagSegments(x, y, width, height, density, direction, d) ==
  IF d >= density THEN <<>>
  ELSE LET atOffset == OffsetX(x, width, density, d, direction)
           atNext == OffsetX(x, width, density, d + 1, direction)
           top == y
           bottom == FracAdd(y, height)
           lineY == IF d % 2 = 0 THEN top ELSE bottom
           otherY == IF d % 2 = 0 THEN bottom ELSE top
       IN <<Cmd("L", atOffset, lineY), Cmd("L", atNext, lineY)>>
          \o (IF d < density - 1
              THEN <<Cmd("L", atNext, lineY), Cmd("L", atNext, otherY)>> ELSE <<>>)
          \o ZigzagSegments(x, y, width, height, density, direction, d + 1)

\* createTilePathData of image-processor.ts.
createTilePathData(x, y, width, height, density, direction, isFirst) ==
  IF density <= 0 THEN <<>>
  ELSE <<Cmd(IF isFirst THEN "M" ELSE "L", x, y)>>
       \o ZigzagSegments(x, y, width, height, density, direction, 0)

\* A <path> element.  rounded: it carries stroke-linejoin, stroke-linecap
\* and vector-effect (svg-utils.ts).  tiles is not part of the markup: it
\* records the anchor points of the tiles drawn into d, in drawing order.
PathElement(d, color, rounded, tiles) ==
  [d |-> d, stroke |-> color, fill |-> "none", strokeWidth |-> 1,
   rounded |-> rounded, tiles |-> tiles]

Anchor(point) == <<NormFrac(point.x), NormFrac(point.y)>>

\* The state of the loop of generateContinuousPath before its first pass.
PathLoopStart ==
  [svgContent |-> <<>>, pathData |-> <<>>, tiles |-> <<>>,
   firstPoint |-> TRUE, lastPoint |-> <<>>]

\* A pass of the loop that joins the tiles by a curve in straight mode too.
PathLoopPassJoining(acc, point, color, s, module) ==
  IF point.density <= 0 THEN acc
  ELSE
    LET needNewPath ==
          /\ acc.lastPoint # <<>>
          /\ DistanceExceeds(acc.lastPoint[1].x, acc.lastPoint[1].y, point.x, point.y,
                             s.pathDistanceThreshold)
        starts == acc.firstPoint \/ needNewPath
        flush == starts /\ acc.pathData # <<>> /\ ~acc.firstPoint
        junction == /\ ~starts /\ module = "utils"
                    /\ acc.lastPoint # <<>>
        before ==
          IF starts THEN <<Cmd("M", point.x, point.y)>>
          ELSE IF junction THEN Append(acc.pathData, Cmd("C", point.x, point.y))
          ELSE acc.pathData
        tile ==
          IF module = "utils"
          THEN createTilePathDataWithTangent(point.x, point.y, point.width, point.height,
                 point.density, point.direction, before = <<>>, s.curvedPaths)
          ELSE createTilePathData(point.x, point.y, point.width, point.height,
                 point.density, point.direction, before = <<>>)
    IN [svgContent |->
          IF flush
          THEN Append(acc.svgContent,
                      PathElement(acc.pathData, color, module = "utils", acc.tiles))
          ELSE acc.svgContent,
        pathData |-> before \o tile,
        tiles |-> (IF starts THEN <<>> ELSE acc.tiles) \o <<Anchor(point)>>,
        firstPoint |-> FALSE,
        lastPoint |-> <<point>>]

\* One pass of the loop "for (let i = 0; i < points.length; i++)" of
\* generateContinuousPath; module is "utils" or "image-processor".
PathLoopPass(acc, point, color, s, module) ==
  IF point.density <= 0 THEN acc
  ELSE
    LET needNewPath ==
          /\ acc.lastPoint # <<>>
          /\ DistanceExceeds(acc.lastPoint[1].x, acc.lastPoint[1].y, point.x, point.y,
                             s.pathDistanceThreshold)
        starts == acc.firstPoint \/ needNewPath
        flush == starts /\ acc.pathData # <<>> /\ ~acc.firstPoint
        junction == /\ ~starts /\ module = "utils"
                    /\ acc.lastPoint # <<>> /\ s.curvedPaths
        before ==
          IF starts THEN <<Cmd("M", point.x, point.y)>>
          ELSE IF junction THEN Append(acc.pathData, Cmd("C", point.x, point.y))
          ELSE acc.pathData
        tile ==
          IF module = "utils"
          THEN createTilePathDataWithTangent(point.x, point.y, point.width, point.height,
                 point.density, point.direction, before = <<>>, s.curvedPaths)
          ELSE createTilePathData(point.x, point.y, point.width, point.height,
                 point.density, point.direction, before = <<>>)
    IN [svgContent |->
          IF flush
          THEN Append(acc.svgContent,
                      PathElement(acc.pathData, color, module = "utils", acc.tiles))
          ELSE acc.svgContent,
        pathData |-> before \o tile,
        tiles |-> (IF starts THEN <<>> ELSE acc.tiles) \o <<Anchor(point)>>,
        firstPoint |-> FALSE,
        lastPoint |-> <<point>>]

RECURSIVE PathLoop(_, _, _, _, _, _)
PathLoop(acc, points, i, color, s, module) ==
  IF i > Len(points) THEN acc
  ELSE PathLoop(PathLoopPass(acc, points[i], color, s, module), points, i + 1, color, s, module)

\* generateContinuousPath without the final "if (pathData)" that adds the
\* path still open when the loop ends.
ContinuousPathsUnflushed(colorGroup, s, module) ==
  PathLoop(PathLoopStart, SortPoints(colorGroup.points), 1,
           colorGroup.color, s, module).svgContent

\* The <path> elements generateContinuousPath returns for a colour group
\* (the points are sorted first).
ContinuousPaths(colorGroup, s, module) ==
  LET end == PathLoop(PathLoopStart, SortPoints(colorGroup.points), 1,
                      colorGroup.color, s, module)
  IN IF end.pathData # <<>>
     THEN Append(end.svgContent,
                 PathElement(end.pathData, colorGroup.color, module = "utils", end.tiles))
     ELSE end.svgContent

generateContinuousPath(colorGroup, s) == ContinuousPaths(colorGroup, s, "utils")

imageProcessor_generateContinuousPath(colorGroup, s) ==
  ContinuousPaths(colorGroup, s, "image-processor")

\* generateSerpentinePath of svg-utils.ts: the <path> of one tile, or nothing.
generateSerpentinePath(x, y, width, height, density, direction, color, useCurvedPaths) ==
  IF density <= 0 THEN <<>>
  ELSE <<PathElement(
           <<Cmd("M", x, y)>>
             \o (IF useCurvedPaths
                 THEN CurvedTile(x, y, width, height, density, direction)
                 ELSE StraightSegments(x, y, width, height, density, direction, 0)),
           color, TRUE, <<<<NormFrac(x), NormFrac(y)>>>>)>>

\* generateSerpentinePath of image-processor.ts: no test of the density.
imageProcessor_generateSerpentinePath(x, y, width, height, density, direction, color) ==
  <<PathElement(
      <<Cmd("M", x, y)>> \o ZigzagSegments(x, y, width, height, density, direction, 0),
      color, FALSE, <<<<NormFrac(x), NormFrac(y)>>>>)>>

RECURSIVE IndividualPaths(_, _, _, _, _)
IndividualPaths(points, i, color, s, module) ==
  IF i > Len(points) THEN <<>>
  ELSE LET point == points[i]
       IN (IF module = "utils"
           THEN generateSerpentinePath(point.x, point.y, point.width, point.height,
                  point.density, point.direction, color, s.curvedPaths)
           ELSE imageProcessor_generateSerpentinePath(point.x, point.y, point.width,
                  point.height, point.density, point.direction, color))
          \o IndividualPaths(points, i + 1, color, s, module)

generateIndividualPaths(colorGroup, s) ==
  IndividualPaths(colorGroup.points, 1, colorGroup.color, s, "utils")

imageProcessor_generateIndividualPaths(colorGroup, s) ==
  IndividualPaths(colorGroup.points, 1, colorGroup.color, s, "image-processor")

\* visiblePaths[colorKey] === false
Hidden(visiblePaths, colorKey) ==
  colorKey \in DOMAIN visiblePaths /\ visiblePaths[colorKey] = FALSE

\* A <g> element.
GroupElement(id, group, paths) ==
  [id |-> id, dataColor |-> group.color, dataName |-> group.displayName, paths |-> paths]

\* GroupElements with the emitted groups numbered 1, 2, ... : the number in
\* an id counts the visible groups only.
RECURSIVE GroupElementsRenumbered(_, _, _)
GroupElementsRenumbered(colorGroups, s, index) ==
  IF index >= Len(colorGroups) THEN <<>>
  ELSE LET group == colorGroups[index + 1]
           emitted == Cardinality({i \in 1..index : ~Hidden(s.visiblePaths, colorGroups[i].key)})
       IN (IF Hidden(s.visiblePaths, group.key) THEN <<>>
           ELSE <<GroupElement(
                    NumberToString(emitted + 1) \o STR_color_group \o group.key, group,
                    IF s.continuousPaths THEN generateContinuousPath(group, s)
                    ELSE generateIndividualPaths(group, s))>>)
          \o GroupElementsRenumbered(colorGroups, s, index + 1)

\* Object.entries(colorGroups).forEach(([colorKey, group], index) => ...)
\* of generateSVG (svg-utils.ts), from entry `index` (counted from 0) on.
RECURSIVE GroupElements(_, _, _)
GroupElements(colorGroups, s, index) ==
  IF index >= Len(colorGroups) THEN <<>>
  ELSE LET group == colorGroups[index + 1]
       IN (IF Hidden(s.visiblePaths, group.key) THEN <<>>
           ELSE <<GroupElement(
                    NumberToString(index + 1) \o STR_color_group \o group.key, group,
                    IF s.continuousPaths THEN generateContinuousPath(group, s)
                    ELSE generateIndividualPaths(group, s))>>)
          \o GroupElements(colorGroups, s, index + 1)

\* The same loop of generateSVG (image-processor.ts).
RECURSIVE imageProcessor_GroupElements(_, _, _)
imageProcessor_GroupElements(colorGroups, s, index) ==
  IF index >= Len(colorGroups) THEN <<>>
  ELSE LET group == colorGroups[index + 1]
       IN (IF Hidden(s.visiblePaths, group.key) THEN <<>>
           ELSE <<GroupElement(
                    STR_color_group \o group.key, group,
                    IF s.continuousPaths THEN imageProcessor_generateContinuousPath(group, s)
                    ELSE imageProcessor_generateIndividualPaths(group, s))>>)
          \o imageProcessor_GroupElements(colorGroups, s, index + 1)

STR_mm == <<" ", "m", "m">>

STR_100 == <<"1", "0", "0", "%">>

\* generateSVG of svg-utils.ts: the document its string denotes.
\* widthInMM = Math.round(outputWidth / 3.759).
generateSVG(data, s) ==
  [kind |-> "svg",
   width |-> NumberToString(Round(data.outputWidth * 1000, 3759)) \o STR_mm,
   height |-> NumberToString(Round(data.outputHeight * 1000, 3759)) \o STR_mm,
   viewBox |-> <<0, 0, data.outputWidth, data.outputHeight>>,
   shapeRendering |-> TRUE,
   metadata |-> <<>>,
   groups |-> IF data.hasColorGroups THEN GroupElements(data.colorGroups, s, 0) ELSE <<>>]

\* generateSVG of image-processor.ts.
imageProcessor_generateSVG(data, s) ==
  [kind |-> "svg",
   width |-> STR_100,
   height |-> STR_100,
   viewBox |-> <<0, 0, data.outputWidth, data.outputHeight>>,
   shapeRendering |-> FALSE,
   metadata |-> <<[originalWidth |-> data.originalWidth,
                   originalHeight |-> data.originalHeight,
                   resizedWidth |-> data.resizedWidth,
                   resizedHeight |-> data.resizedHeight,
                   outputWidth |-> data.outputWidth,
                   outputHeight |-> data.outputHeight,
                   gridSizeX |-> NormFrac(s.gridSizeX),
                   gridSizeY |-> NormFrac(s.gridSizeY),
                   processingMode |-> s.processingMode,
                   continuousPaths |-> s.continuousPaths]>>,
   groups |-> IF data.hasColorGroups
              THEN imageProcessor_GroupElements(data.colorGroups, s, 0) ELSE <<>>]

\* A generateSVG that sorts the points of every group, drawn or not.
SortedInPlaceEveryGroup(colorGroups, s) ==
  [i \in DOMAIN colorGroups |->
     [colorGroups[i] EXCEPT !.points = SortPoints(colorGroups[i].points)]]

\* generateContinuousPath sorts the points of the group it is called for
\* in place: the colour groups after a call of generateSVG.
SortedInPlace(colorGroups, s) ==
  [i \in DOMAIN colorGroups |->
     IF s.continuousPaths /\ ~Hidden(s.visiblePaths, colorGroups[i].key)
     THEN [colorGroups[i] EXCEPT !.points = SortPoints(colorGroups[i].points)]
     ELSE colorGroups[i]]

\* The values of Settings.visiblePaths over the keys of the colour groups.
VisiblePathsMaps(colorGroups) ==
  UNION {[D -> BOOLEAN] : D \in SUBSET GroupKeys(colorGroups)}

\* Home renders the processed data, and renders it again whenever
\* handlePathVisibilityChange changed visiblePaths.
GenerateSVG ==
  /\ pc \in {"processed", "rendered"}
  /\ \E visiblePaths \in VisiblePathsMaps(imageData.colorGroups) :
       LET s == [settings EXCEPT !.visiblePaths = visiblePaths]
       IN /\ settings' = s
          /\ svgContent' = generateSVG(imageData, s)
          /\ imageData' = [imageData EXCEPT
                             !.colorGroups = SortedInPlace(imageData.colorGroups, s)]
  /\ pc' = "rendered"
  /\ UNCHANGED <<extracted, dimCall, promise, img, nearestCall, kmeans, home, loader>>

ImageProcessorGenerateSVG ==
  /\ pc \in {"processed", "rendered"}
  /\ \E visiblePaths \in VisiblePathsMaps(imageData.colorGroups) :
       LET s == [settings EXCEPT !.visiblePaths = visiblePaths]
       IN /\ settings' = s
          /\ svgContent' = imageProcessor_generateSVG(imageData, s)
          /\ imageData' = [imageData EXCEPT
                             !.colorGroups = SortedInPlace(imageData.colorGroups, s)]
  /\ pc' = "rendered"
  /\ UNCHANGED <<extracted, dimCall, promise, img, nearestCall, kmeans, home, loader>>

(***************************************************************************)
(* Specification of SVG generation over processed grayscale images.        *)
(***************************************************************************)
\* columnsCount and rowsCount of the inputs.
SvgGrid == <<2, 2>>

SvgColors == 2

SvgPalette == {Gray(0), Gray(255)}

\* minDensity 2 and maxDensity 4: every gray level keeps a positive density.
SvgInputs ==
  {Input([width |-> 1, height |-> 1, raster |-> ra],
         [MakeSettings("grayscale", SvgColors, 2, 4, SvgGrid[1], SvgGrid[2])
            EXCEPT !.continuousPaths = cont, !.pathDistanceThreshold = th]) :
     ra \in Rasters(SvgGrid[1], SvgGrid[2], SvgPalette), cont \in BOOLEAN, th \in {10, 300}}

OnloadSvg == Onload(SvgInputs)

NextSvg == OnloadSvg \/ DeferredProcess \/ GenerateSVG \/ ImageProcessorGenerateSVG

SpecSvg == InitPipeline /\ [][NextSvg]_vars

(***************************************************************************)
(* C3.  Visibility filter: generateSVG emits no <g> element for a key k    *)
(* with visiblePaths[k] = false and exactly one for a key that is absent   *)
(* from visiblePaths or mapped to true; between two renderings of the same *)
(* data that differ in visiblePaths, the <g> elements of the groups        *)
(* visible in both (id, data-color, data-name and all <path> elements) are *)
(* identical and in the same order.                                        *)
(***************************************************************************)
EndsWith(str, suffix) ==
  /\ Len(suffix) <= Len(str)
  /\ SubSeq(str, Len(str) - Len(suffix) + 1, Len(str)) = suffix

IsElementFor(g, key) == EndsWith(g.id, STR_color_group \o key)

ElementsFor(doc, key) == SelectSeq(doc.groups, LAMBDA g : IsElementFor(g, key))

VisibleInBoth(g) ==
  \E i \in DOMAIN imageData.colorGroups :
    /\ IsElementFor(g, imageData.colorGroups[i].key)
    /\ ~Hidden(settings.visiblePaths, imageData.colorGroups[i].key)
    /\ ~Hidden(settings'.visiblePaths, imageData.colorGroups[i].key)

VisibilityFilterStep ==
  (/\ pc = "rendered" /\ pc' = "rendered"
   /\ (svgContent.metadata = <<>>) <=> (svgContent'.metadata = <<>>))
  => /\ \A i \in DOMAIN imageData.colorGroups :
          LET k == imageData.colorGroups[i].key
          IN Len(ElementsFor(svgContent', k))
               = IF k \in DOMAIN settings'.visiblePaths /\ settings'.visiblePaths[k] = FALSE
                 THEN 0 ELSE 1
     /\ SelectSeq(svgContent.groups, VisibleInBoth)
          = SelectSeq(svgContent'.groups, VisibleInBoth)

VisibilityFilter == [][VisibilityFilterStep]_vars

\* A rendering by generateSVG of svg-utils.ts in which the first group is
\* hidden and the second group is emitted with a path.
VisibilityFilterWitness ==
  /\ pc = "rendered"
  /\ svgContent.metadata = <<>>
  /\ Len(imageData.colorGroups) >= 2
  /\ Hidden(settings.visiblePaths, imageData.colorGroups[1].key)
  /\ imageData.colorGroups[1].points # <<>>
  /\ ElementsFor(svgContent, imageData.colorGroups[1].key) = <<>>
  /\ Len(svgContent.groups) = 1
  /\ IsElementFor(svgContent.groups[1], imageData.colorGroups[2].key)
  /\ svgContent.groups[1].paths # <<>>

(***************************************************************************)
(* Specification of path generation for one hand-made colour group.        *)
(***************************************************************************)
MaxPathPoints == 3

\* Grid cells <<x, y>> of 10 x 10 tiles: anchors (0,0), (10,0), (20,0) and
\* (500,500).
PathCells == {<<0, 0>>, <<1, 0>>, <<2, 0>>, <<50, 50>>}

PathDensities == {0, 1, 2}

PathThresholds == {10, 25}

PathSettings(threshold, curved) ==
  [MakeSettings("monochrome", 2, 0, 2, 51, 51)
     EXCEPT !.pathDistanceThreshold = threshold, !.curvedPaths = curved]

\* The point lists of up to MaxPathPoints points in different cells, in
\* any order.
PathPointLists(s) ==
  UNION {{[j \in 1..n |-> MakePoint(cells[j][1], cells[j][2], s, dens[j])] :
            cells \in {c \in [1..n -> PathCells] :
                         \A a, b \in 1..n : a # b => c[a] # c[b]},
            dens \in [1..n -> PathDensities]} :
         n \in 0..MaxPathPoints}

PathImageData(points) ==
  [kind |-> "imageData", width |-> 51, height |-> 51, pixels |-> <<>>,
   originalWidth |-> 510, originalHeight |-> 510,
   resizedWidth |-> 51, resizedHeight |-> 51,
   outputWidth |-> 510, outputHeight |-> 510,
   columnsCount |-> 51, rowsCount |-> 51,
   tileWidth |-> Frac(10, 1), tileHeight |-> Frac(10, 1),
   hasColorGroups |-> TRUE,
   colorGroups |-> <<[key |-> STR_monochrome,
                      color |-> <<"#", "0", "0", "0", "0", "0", "0">>,
                      displayName |-> STR_Monochrome, points |-> points]>>]

InitPath ==
  /\ home = None
  /\ loader = None
  /\ pc = "processed"
  /\ \E threshold \in PathThresholds, curved \in BOOLEAN :
       /\ settings = PathSettings(threshold, curved)
       /\ \E points \in PathPointLists(settings) : imageData = PathImageData(points)
  /\ svgContent = None
  /\ extracted = None
  /\ dimCall = None
  /\ nearestCall = None
  /\ kmeans = None
  /\ promise = resolve(Pending)
  /\ img = None

NextPath == GenerateSVG \/ ImageProcessorGenerateSVG

SpecPath == InitPath /\ [][NextPath]_vars

(***************************************************************************)
(* C4.  Distance break: in continuous mode no two tiles drawn one after    *)
(* the other into the same <path> have anchors farther apart than          *)
(* pathDistanceThreshold; the points of positive density are drawn in      *)
(* sorted order, each into exactly one <path> of the group's colour, and a *)
(* new <path> begins exactly where the distance from the previously drawn  *)
(* point exceeds the threshold.  Points at (0,0) and (500,500) with        *)
(* threshold 10 give two <path> elements.                                  *)
(***************************************************************************)
\* (distance between anchors a and b)^2 > threshold^2
FarApart(a, b, threshold) ==
  LET dx == FracSub(b[1], a[1])
      dy == FracSub(b[2], a[2])
  IN FracLess(<<threshold * threshold, 1>>,
              FracAdd(<<dx[1] * dx[1], dx[2] * dx[2]>>, <<dy[1] * dy[1], dy[2] * dy[2]>>))

RECURSIVE TilesOf(_)
TilesOf(paths) ==
  IF paths = <<>> THEN <<>> ELSE paths[1].tiles \o TilesOf(Tail(paths))

DrawnAnchors(group) ==
  LET drawn == SelectSeq(group.points, LAMBDA point : point.density > 0)
  IN [j \in DOMAIN drawn |-> Anchor(drawn[j])]

BrokenByDistance(group, paths, threshold) ==
  /\ TilesOf(paths) = DrawnAnchors(group)
  /\ \A i \in DOMAIN paths :
       /\ paths[i].stroke = group.color
       /\ paths[i].tiles # <<>>
       /\ paths[i].d[1] = [op |-> "M", x |-> paths[i].tiles[1][1], y |-> paths[i].tiles[1][2]]
       /\ \A j \in 1..(Len(paths[i].tiles) - 1) :
            ~FarApart(paths[i].tiles[j], paths[i].tiles[j + 1], threshold)
       /\ i < Len(paths) =>
            FarApart(paths[i].tiles[Len(paths[i].tiles)], paths[i + 1].tiles[1], threshold)
  /\ (/\ DrawnAnchors(group) = <<<<Frac(0, 1), Frac(0, 1)>>, <<Frac(500, 1), Frac(500, 1)>>>>
      /\ threshold = 10)
       => Len(paths) = 2

DistanceBreak ==
  (pc = "rendered" /\ settings.continuousPaths) =>
    \A i \in DOMAIN imageData.colorGroups :
      \A g \in {svgContent.groups[n] : n \in DOMAIN svgContent.groups} :
        IsElementFor(g, imageData.colorGroups[i].key) =>
          BrokenByDistance(imageData.colorGroups[i], g.paths, settings.pathDistanceThreshold)

\* Three points drawn into two paths: two neighbours in the first, a far
\* point alone in the second.
DistanceBreakWitness ==
  /\ pc = "rendered"
  /\ settings.continuousPaths
  /\ settings.pathDistanceThreshold = 10
  /\ Len(svgContent.groups) = 1
  /\ Len(svgContent.groups[1].paths) = 2
  /\ Len(svgContent.groups[1].paths[1].tiles) = 2
  /\ svgContent.groups[1].paths[2].tiles = <<<<Frac(500, 1), Frac(500, 1)>>>>

(***************************************************************************)
(* Colour group extraction (utils/svg-utils.ts).                           *)
(* The svgContent argument is a document generateSVG produced or a string  *)
(* that is not well-formed XML.  fault names the DOM call that throws, if  *)
(* one does: "parse" (DOMParser), "serialize" (createDocument, cloneNode,  *)
(* XMLSerializer) or "none".                                               *)
(***************************************************************************)
Malformed == [kind |-> "malformed"]

Faults == {"none", "parse", "serialize"}

Null == [kind |-> "null"]

\* parser.parseFromString(svgContent, "image/svg+xml"): for a malformed
\* string a document that holds a <parsererror> and nothing else.
parseFromString(svg) ==
  IF svg.kind = "svg" THEN svg
  ELSE [kind |-> "svg", width |-> <<>>, height |-> <<>>, viewBox |-> <<>>,
        shapeRendering |-> FALSE, metadata |-> <<>>, groups |-> <<>>]

\* svgDoc.getElementById(id): the first element with that id, or none.
getElementById(svgDoc, id) ==
  LET found == SelectSeq(svgDoc.groups, LAMBDA g : g.id = id)
  IN IF found = <<>> THEN <<>> ELSE <<found[1]>>

\* extractColorGroupSVG without its try/catch: an exception of a DOM call
\* reaches the caller.
extractColorGroupSVGUncaught(svg, colorKey, fault) ==
  IF fault = "parse" THEN [kind |-> "throw"]
  ELSE LET svgDoc == parseFromString(svg)
           colorGroup == getElementById(svgDoc, STR_color_group \o colorKey)
       IN IF colorGroup = <<>> THEN Null
          ELSE IF fault = "serialize" THEN [kind |-> "throw"]
          ELSE [kind |-> "svg",
                width |-> IF svgDoc.width = <<>> THEN STR_100 ELSE svgDoc.width,
                height |-> IF svgDoc.height = <<>> THEN STR_100 ELSE svgDoc.height,
                viewBox |-> svgDoc.viewBox,
                shapeRendering |-> TRUE,
                metadata |-> svgDoc.metadata,
                groups |-> colorGroup]

\* extractColorGroupSVG(svgContent, colorKey): the standalone document, or
\* null.  (generateSVG emits no <rect>, so none is copied.)
extractColorGroupSVG(svg, colorKey, fault) ==
  IF fault = "parse" THEN Null
  ELSE LET svgDoc == parseFromString(svg)
           colorGroup == getElementById(svgDoc, STR_color_group \o colorKey)
       IN IF colorGroup = <<>> THEN Null
          ELSE IF fault = "serialize" THEN Null
          ELSE [kind |-> "svg",
                width |-> IF svgDoc.width = <<>> THEN STR_100 ELSE svgDoc.width,
                height |-> IF svgDoc.height = <<>> THEN STR_100 ELSE svgDoc.height,
                viewBox |-> svgDoc.viewBox,
                shapeRendering |-> TRUE,
                metadata |-> svgDoc.metadata,
                groups |-> colorGroup]

\* colorGroups.forEach((group) => { ... result[colorKey] = extractedSvg })
RECURSIVE ExtractEach(_, _, _, _)
ExtractEach(svg, matched, i, fault) ==
  IF i > Len(matched) THEN <<>>
  ELSE LET colorKey == ReplaceFirstWithEmpty(matched[i].id, STR_color_group)
           extractedSvg == extractColorGroupSVG(svg, colorKey, fault)
           rest == ExtractEach(svg, matched, i + 1, fault)
       IN IF extractedSvg.kind = "svg"
          THEN <<[key |-> colorKey, svg |-> extractedSvg]>>
               \o SelectSeq(rest, LAMBDA e : e.key # colorKey)
          ELSE rest

\* extractAllColorGroups(svgContent): the entries of the returned record.
extractAllColorGroups(svg, fault) ==
  IF fault = "parse" THEN [kind |-> "map", entries |-> <<>>]
  ELSE LET svgDoc == parseFromString(svg)
           matched == SelectSeq(svgDoc.groups, LAMBDA g : StartsWith(g.id, STR_color_group))
       IN [kind |-> "map", entries |-> ExtractEach(svg, matched, 1, fault)]

STR_none == <<"n", "o", "n", "e">>

\* handleDownloadColorGroup of svg-download-options.tsx for one colour key.
ExtractColorGroupSVG ==
  /\ pc = "rendered"
  /\ \E svg \in {svgContent, Malformed}, fault \in Faults,
        colorKey \in GroupKeys(imageData.colorGroups) \cup {STR_none} :
       extracted' = [op |-> "extractColorGroupSVG", svgContent |-> svg, colorKey |-> colorKey,
                     fault |-> fault, result |-> extractColorGroupSVG(svg, colorKey, fault)]
  /\ pc' = "extracted"
  /\ UNCHANGED <<settings, imageData, svgContent, dimCall, promise, img, nearestCall, kmeans, home, loader>>

\* handleDownloadAllSeparately of svg-download-options.tsx.
ExtractAllColorGroups ==
  /\ pc = "rendered"
  /\ \E svg \in {svgContent, Malformed}, fault \in Faults :
       extracted' = [op |-> "extractAllColorGroups", svgContent |-> svg, fault |-> fault,
                     result |-> extractAllColorGroups(svg, fault)]
  /\ pc' = "extracted"
  /\ UNCHANGED <<settings, imageData, svgContent, dimCall, promise, img, nearestCall, kmeans, home, loader>>

NextExtract ==
  \/ OnloadSvg \/ DeferredProcess \/ GenerateSVG \/ ImageProcessorGenerateSVG
  \/ ExtractColorGroupSVG \/ ExtractAllColorGroups

SpecExtract == InitPipeline /\ [][NextExtract]_vars

(***************************************************************************)
(* C1.  Extraction round-trip: for every visible key of colorGroups,       *)
(* extractColorGroupSVG(generateSVG(data, settings), key) is a non-null    *)
(* SVG document with exactly one <g> element, whose data-color is the      *)
(* colour of the group.                                                    *)
(***************************************************************************)
ExtractionRoundTrip ==
  (/\ pc = "extracted"
   /\ extracted.op = "extractColorGroupSVG"
   /\ extracted.svgContent = svgContent
   /\ extracted.fault = "none"
   /\ extracted.colorKey \in GroupKeys(imageData.colorGroups)
   /\ ~Hidden(settings.visiblePaths, extracted.colorKey))
  => /\ extracted.result.kind = "svg"
     /\ Len(extracted.result.groups) = 1
     /\ extracted.result.groups[1].dataColor
          = GroupOfKey(imageData.colorGroups, extracted.colorKey).color

(***************************************************************************)
(* C10.  Batch extraction: extractAllColorGroups(generateSVG(data,         *)
(* settings)) has one entry per emitted (visible) colour group, under the  *)
(* group's colour key, and the entry is the standalone SVG of that group.  *)
(***************************************************************************)
VisibleKeys ==
  LET visible == SelectSeq(imageData.colorGroups,
                           LAMBDA group : ~Hidden(settings.visiblePaths, group.key))
  IN [i \in DOMAIN visible |-> visible[i].key]

BatchExtraction ==
  (/\ pc = "extracted"
   /\ extracted.op = "extractAllColorGroups"
   /\ extracted.svgContent = svgContent
   /\ extracted.fault = "none")
  => /\ [i \in DOMAIN extracted.result.entries |-> extracted.result.entries[i].key] = VisibleKeys
     /\ \A i \in DOMAIN extracted.result.entries :
          LET entry == extracted.result.entries[i]
          IN /\ entry.svg.kind = "svg"
             /\ entry.svg.viewBox = svgContent.viewBox
             /\ entry.svg.groups = ElementsFor(svgContent, entry.key)

(***************************************************************************)
(* C9.  Extraction failure is a value: extractColorGroupSVG never throws   *)
(* and returns null when the document has no element with the requested    *)
(* group id, when the input cannot be parsed and when a DOM call throws;   *)
(* extractAllColorGroups never throws and returns an empty map when no     *)
(* element has the group id prefix, when the input cannot be parsed and    *)
(* when a DOM call throws.                                                 *)
(***************************************************************************)
InputHasGroupId(id) ==
  /\ extracted.svgContent.kind = "svg"
  /\ \E i \in DOMAIN extracted.svgContent.groups : extracted.svgContent.groups[i].id = id

InputHasGroupIdPrefix ==
  /\ extracted.svgContent.kind = "svg"
  /\ \E i \in DOMAIN extracted.svgContent.groups :
       StartsWith(extracted.svgContent.groups[i].id, STR_color_group)

ExtractionFailureIsValue ==
  pc = "extracted" =>
    /\ extracted.result.kind # "throw"
    /\ extracted.op = "extractColorGroupSVG" =>
         /\ extracted.result.kind \in {"null", "svg"}
         /\ (\/ extracted.fault # "none"
             \/ ~InputHasGroupId(STR_color_group \o extracted.colorKey))
              => extracted.result = Null
    /\ extracted.op = "extractAllColorGroups" =>
         /\ extracted.result.kind = "map"
         /\ (extracted.fault # "none" \/ ~InputHasGroupIdPrefix)
              => extracted.result.entries = <<>>

\* A DOM call threw while a group that is in the document was extracted,
\* and the result is null.
ExtractionFailureWitness ==
  /\ pc = "extracted"
  /\ extracted.op = "extractColorGroupSVG"
  /\ extracted.fault = "serialize"
  /\ InputHasGroupId(STR_color_group \o extracted.colorKey)
  /\ extracted.result = Null

(***************************************************************************)
(* C11.  Density monotonicity: in grayscale and monochrome modes, for      *)
(* fixed settings and any two retained pixels p and q with                 *)
(* brightness(p) <= brightness(q), the point made for p has a density      *)
(* greater than or equal to the density of the point made for q (a         *)
(* brighter pixel is never denser).                                        *)
(***************************************************************************)
\* The densities of the points pushed for the grid cell of a pixel.
DensitiesOfPixel(pixel) ==
  {p.density : p \in {q \in AllPoints(imageData.colorGroups) :
                        /\ q.row = pixel.y
                        /\ q.x = MakePoint(pixel.x, pixel.y, settings, 0).x}}

DensityMonotone ==
  (pc = "processed" /\ settings.processingMode \in {"grayscale", "monochrome"}) =>
    \A i, j \in DOMAIN imageData.pixels :
      imageData.pixels[i].brightness <= imageData.pixels[j].brightness =>
        \A di \in DensitiesOfPixel(imageData.pixels[i]),
           dj \in DensitiesOfPixel(imageData.pixels[j]) : di >= dj

(***************************************************************************)
(* Specification of processImage as a whole: the four modes, images that   *)
(* fail to load, canvases without a 2D context.                            *)
(***************************************************************************)
\* columnsCount and rowsCount of the inputs.
PromiseGrid == <<2, 1>>

\* Brightness 0, 76 and 255.
PromisePalette == {RGB(0, 0, 0), RGB(255, 0, 0), RGB(255, 255, 255)}

PromiseModes == {"grayscale", "posterize", "cmyk", "monochrome"}

\* brightnessThreshold 0 retains the black pixels only: a posterize run on
\* an image without black pixels has no colour to cluster.
PromiseInputs ==
  {Input([width |-> 1, height |-> 1, raster |-> ra],
         [MakeSettings(mode, 2, 1, 2, PromiseGrid[1], PromiseGrid[2])
            EXCEPT !.brightnessThreshold = th]) :
     ra \in Rasters(PromiseGrid[1], PromiseGrid[2], PromisePalette),
     mode \in PromiseModes, th \in {0, 255}}

OnloadPromise == Onload(PromiseInputs)

NextPromise == OnloadPromise \/ Onerror \/ DeferredProcess

SpecPromise == InitPipeline /\ [][NextPromise]_vars

(***************************************************************************)
(* C12.  Fatal failures reject atomically: when the image fails to load or *)
(* no 2D context is obtained for the first or for the grid canvas,         *)
(* processImage rejects with an Error; reject is the only call made, no    *)
(* ImageData exists, no deferred step is scheduled, and nothing changes    *)
(* afterwards (it never resolves, no mode processor runs).                 *)
(***************************************************************************)
FatalMessages ==
  {"Failed to load image", "Could not get canvas context",
   "Could not get grid canvas context"}

FatalFailure ==
  /\ promise.reason # <<>>
  /\ promise.reason[1].message \in FatalMessages

FatalFailureState ==
  FatalFailure =>
    /\ promise.state = "rejected"
    /\ promise.reason[1].name = "Error"
    /\ promise.calls = <<"reject">>
    /\ imageData = None
    /\ pc = "rejected"

FatalFailureRejects ==
  /\ []FatalFailureState
  /\ [][FatalFailure => UNCHANGED <<promise, imageData, pc>>]_vars

\* The grid canvas gave no 2D context: rejected with the message, nothing made.
FatalFailureWitness ==
  /\ pc = "rejected"
  /\ promise.state = "rejected"
  /\ promise.reason = <<Error("Could not get grid canvas context")>>
  /\ promise.calls = <<"reject">>
  /\ settings # None
  /\ imageData = None

(***************************************************************************)
(* Specification of repeated rendering: grayscale, monochrome and CMYK     *)
(* images are processed and rendered any number of times.                  *)
(***************************************************************************)
\* columnsCount and rowsCount of the inputs.
RerenderGrid == <<2, 2>>

RerenderPalette == {RGB(0, 0, 0), RGB(255, 0, 0)}

\* The rasters with a black first row; the second row, which is drawn from
\* right to left, holds any colours of the palette.
RerenderRasters ==
  {ra \in Rasters(RerenderGrid[1], RerenderGrid[2], RerenderPalette) :
     \A i \in 1..RerenderGrid[1] : ra[i] = RGB(0, 0, 0)}

\* pathDistanceThreshold 300: neighbours in a row (280 apart) share a path.
RerenderInputs ==
  {Input([width |-> 1, height |-> 1, raster |-> ra],
         [MakeSettings(mode, 2, 1, 2, RerenderGrid[1], RerenderGrid[2])
            EXCEPT !.continuousPaths = cont, !.pathDistanceThreshold = 300]) :
     ra \in RerenderRasters,
     mode \in {"grayscale", "monochrome", "cmyk"}, cont \in BOOLEAN}

OnloadRerender == Onload(RerenderInputs)

NextRerender == OnloadRerender \/ DeferredProcess \/ GenerateSVG \/ ImageProcessorGenerateSVG

SpecRerender == InitPipeline /\ [][NextRerender]_vars

(***************************************************************************)
(* C13.  Determinism: in grayscale, monochrome and CMYK modes the mode     *)
(* processor has one possible result for given pixels and settings; every  *)
(* rendering of the ImageData object, also one made after an earlier       *)
(* generateSVG call sorted its points in place, is the document that       *)
(* generateSVG returns for a fresh run of the processor on the same pixels *)
(* and settings, and the groups hold the same points as after a fresh run. *)
(***************************************************************************)
\* The colour groups of a fresh run of the mode processor.
FreshGroups ==
  (CHOOSE out \in ModeOutcomes(imageData, settings) : TRUE).groups

PointSet(group) == {group.points[j] : j \in DOMAIN group.points}

Determinism ==
  (/\ pc \in {"processed", "rendered"}
   /\ settings.processingMode \in {"grayscale", "monochrome", "cmyk"})
  => /\ Cardinality(ModeOutcomes(imageData, settings)) = 1
     /\ DOMAIN imageData.colorGroups = DOMAIN FreshGroups
     /\ \A i \in DOMAIN FreshGroups :
          /\ imageData.colorGroups[i].key = FreshGroups[i].key
          /\ Len(imageData.colorGroups[i].points) = Len(FreshGroups[i].points)
          /\ PointSet(imageData.colorGroups[i]) = PointSet(FreshGroups[i])
          /\ pc = "processed" => imageData.colorGroups[i].points = FreshGroups[i].points
     /\ pc = "rendered" =>
          svgContent =
            IF svgContent.metadata = <<>>
            THEN generateSVG([imageData EXCEPT !.colorGroups = FreshGroups], settings)
            ELSE imageProcessor_generateSVG([imageData EXCEPT !.colorGroups = FreshGroups],
                                            settings)

\* A rendered image whose points the first generateSVG call reordered, and
\* whose rendering from the reordered points is the document at hand.
DeterminismWitness ==
  /\ pc = "rendered"
  /\ settings.continuousPaths
  /\ settings.processingMode = "cmyk"
  /\ svgContent.metadata = <<>>
  /\ \E i \in DOMAIN imageData.colorGroups :
       /\ imageData.colorGroups[i].points # FreshGroups[i].points
       /\ ~Hidden(settings.visiblePaths, imageData.colorGroups[i].key)
  /\ svgContent = generateSVG(imageData, settings)
  /\ \E n \in DOMAIN svgContent.groups : \E m \in DOMAIN svgContent.groups[n].paths :
       Len(svgContent.groups[n].paths[m].tiles) >= 2

(***************************************************************************)
(* Specification of the Pixel Sampler: opaque and translucent cells, every *)
(* mode, thresholds at, below and above the brightness values, invert off  *)
(* and on.                                                                 *)
(***************************************************************************)
\* columnsCount and rowsCount of the inputs.
SampleGrid == <<2, 2>>

\* Brightness 0, 100, 255, and white at alpha 51 (brightness 51).
SamplePalette == {Gray(0), Gray(100), Gray(255), [r |-> 255, g |-> 255, b |-> 255, a |-> 51]}

SampleThresholds == {0, 100, 255}

SampleInputs ==
  {Input([width |-> 1, height |-> 1, raster |-> ra],
         [MakeSettings(mode, 2, 1, 2, SampleGrid[1], SampleGrid[2])
            EXCEPT !.brightnessThreshold = th, !.invert = inv]) :
     ra \in Rasters(SampleGrid[1], SampleGrid[2], SamplePalette),
     mode \in PromiseModes, th \in SampleThresholds, inv \in BOOLEAN}

OnloadSample == Onload(SampleInputs)

NextSample == OnloadSample \/ Onerror

SpecSample == InitPipeline /\ [][NextSample]_vars

(***************************************************************************)
(* C14.  Pixel retention, as claimed: the sampler puts a grid cell into    *)
(* ImageData.pixels if and only if processingMode is cmyk or the cell's    *)
(* brightness is <= brightnessThreshold; every retained pixel has integer  *)
(* coordinates 0 <= x < columns, 0 <= y < rows and appears at most once.   *)
(***************************************************************************)
\* The indices of imageData.pixels that hold grid cell (x, y).
PixelsAt(x, y) ==
  {i \in DOMAIN imageData.pixels : imageData.pixels[i].x = x /\ imageData.pixels[i].y = y}

\* The brightness the sampler computes for grid cell (x, y).
CellBrightness(x, y) ==
  SampledBrightness(img.raster[y * imageData.width + x + 1], settings)

RetainedPixelsInGrid ==
  /\ \A i \in DOMAIN imageData.pixels :
       /\ imageData.pixels[i].x \in 0..(imageData.columnsCount - 1)
       /\ imageData.pixels[i].y \in 0..(imageData.rowsCount - 1)
  /\ \A x \in 0..(imageData.columnsCount - 1), y \in 0..(imageData.rowsCount - 1) :
       Cardinality(PixelsAt(x, y)) <= 1

PixelRetentionAsClaimed ==
  pc = "sampled" =>
    /\ \A x \in 0..(imageData.columnsCount - 1), y \in 0..(imageData.rowsCount - 1) :
         (PixelsAt(x, y) # {})
           <=> (\/ settings.processingMode = "cmyk"
                \/ CellBrightness(x, y) <= settings.brightnessThreshold)
    /\ RetainedPixelsInGrid

(***************************************************************************)
(* C14, amended.  The sampler puts a grid cell into ImageData.pixels if    *)
(* and only if processingMode is cmyk, or invert is off and the cell's     *)
(* brightness is <= brightnessThreshold, or invert is on and the cell's    *)
(* inverted brightness (255 - brightness, the value stored in the pixel)   *)
(* is >= brightnessThreshold; every retained pixel has integer coordinates *)
(* 0 <= x < columns, 0 <= y < rows and appears at most once.               *)
(***************************************************************************)
PixelRetention ==
  pc = "sampled" =>
    /\ \A x \in 0..(imageData.columnsCount - 1), y \in 0..(imageData.rowsCount - 1) :
         LET cell == img.raster[y * imageData.width + x + 1]
             raw == Brightness(cell.r, cell.g, cell.b, cell.a)
         IN /\ (PixelsAt(x, y) # {})
                 <=> (\/ settings.processingMode = "cmyk"
                      \/ (~settings.invert /\ raw <= settings.brightnessThreshold)
                      \/ (settings.invert /\ 255 - raw >= settings.brightnessThreshold))
            /\ \A i \in PixelsAt(x, y) :
                 imageData.pixels[i].brightness
                   = IF settings.invert THEN 255 - raw ELSE raw
    /\ RetainedPixelsInGrid

\* An inverted sampling with threshold 100: a cell of brightness 100
\* (inverted 155) is kept, a white cell (inverted 0) is dropped.
PixelRetentionWitness ==
  /\ pc = "sampled"
  /\ settings.processingMode # "cmyk"
  /\ settings.invert
  /\ settings.brightnessThreshold = 100
  /\ \E x \in 0..(imageData.columnsCount - 1), y \in 0..(imageData.rowsCount - 1) :
       /\ img.raster[y * imageData.width + x + 1] = Gray(100)
       /\ \E i \in PixelsAt(x, y) : imageData.pixels[i].brightness = 155
  /\ \E x \in 0..(imageData.columnsCount - 1), y \in 0..(imageData.rowsCount - 1) :
       /\ img.raster[y * imageData.width + x + 1] = Gray(255)
       /\ PixelsAt(x, y) = {}

(***************************************************************************)
(* Specification of rendering one hand-made colour group in continuous and *)
(* in per-tile mode, with points of density 0 among the others.            *)
(***************************************************************************)
InitTiles ==
  /\ home = None
  /\ loader = None
  /\ pc = "processed"
  /\ \E threshold \in PathThresholds, curved \in BOOLEAN, continuous \in BOOLEAN :
       /\ settings = [PathSettings(threshold, curved) EXCEPT !.continuousPaths = continuous]
       /\ \E points \in PathPointLists(settings) : imageData = PathImageData(points)
  /\ svgContent = None
  /\ extracted = None
  /\ dimCall = None
  /\ nearestCall = None
  /\ kmeans = None
  /\ promise = resolve(Pending)
  /\ img = None

NextTiles == GenerateSVG \/ ImageProcessorGenerateSVG

SpecTiles == InitTiles /\ [][NextTiles]_vars

(***************************************************************************)
(* C15.  Zero density draws nothing: a PathPoint with density 0            *)
(* contributes no markup to the output of generateSVG; in continuous mode  *)
(* and in per-tile mode the document is the one generated for the same     *)
(* data without its zero-density points (no segment, no path start, no     *)
(* part in the distance test, no <path> element of its own).               *)
(***************************************************************************)
WithoutZeroDensity(data) ==
  [data EXCEPT !.colorGroups =
     [i \in DOMAIN data.colorGroups |->
        [data.colorGroups[i] EXCEPT
           !.points = SelectSeq(data.colorGroups[i].points,
                                LAMBDA point : point.density # 0)]]]

ZeroDensityDrawsNothing ==
  pc = "rendered" =>
    svgContent =
      IF svgContent.metadata = <<>>
      THEN generateSVG(WithoutZeroDensity(imageData), settings)
      ELSE imageProcessor_generateSVG(WithoutZeroDensity(imageData), settings)


(***************************************************************************)
(* C16.  Path-data well-formedness: the d attribute of every <path> that   *)
(* generateSVG emits, written out as the template literals write it,       *)
(* starts with exactly one M command with 2 numbers and continues only     *)
(* with L commands with 2 numbers each or C commands with 6 numbers each;  *)
(* no second M occurs and no command lacks an argument.                    *)
(***************************************************************************)
OpToken(op) == [t |-> "op", v |-> op]

NumToken(f) == [t |-> "num", v |-> f]

\* A control-point coordinate of a curve: a number the model does not compute.
CtrlToken == [t |-> "num", v |-> <<0, 1>>]

\* The text of d, token by token: `M x y`, `L x y`,
\* `C ctrl1X,ctrl1Y ctrl2X,ctrl2Y x,y`.
RECURSIVE PathDataTokens(_)
PathDataTokens(d) ==
  IF d = <<>> THEN <<>>
  ELSE (IF d[1].op = "C"
        THEN <<OpToken("C"), CtrlToken, CtrlToken, CtrlToken, CtrlToken,
               NumToken(d[1].x), NumToken(d[1].y)>>
        ELSE <<OpToken(d[1].op), NumToken(d[1].x), NumToken(d[1].y)>>)
       \o PathDataTokens(Tail(d))

IsNumberAt(tokens, i) ==
  /\ i <= Len(tokens)
  /\ tokens[i].t = "num"
  /\ tokens[i].v[1] \in Int
  /\ tokens[i].v[2] \in Nat \ {0}

NumbersAt(tokens, i, n) == \A k \in i..(i + n - 1) : IsNumberAt(tokens, k)

\* Tokens i.. form a sequence of L commands with 2 numbers and C commands
\* with 6 numbers.
RECURSIVE LineOrCurveCommands(_, _)
LineOrCurveCommands(tokens, i) ==
  IF i > Len(tokens) THEN TRUE
  ELSE /\ tokens[i].t = "op"
       /\ tokens[i].v \in {"L", "C"}
       /\ LET n == IF tokens[i].v = "L" THEN 2 ELSE 6
          IN /\ NumbersAt(tokens, i + 1, n)
             /\ LineOrCurveCommands(tokens, i + 1 + n)

WellFormedPathData(tokens) ==
  /\ Len(tokens) >= 3
  /\ tokens[1] = OpToken("M")
  /\ NumbersAt(tokens, 2, 2)
  /\ LineOrCurveCommands(tokens, 4)

EmittedPaths ==
  UNION {{svgContent.groups[n].paths[m] : m \in DOMAIN svgContent.groups[n].paths} :
           n \in DOMAIN svgContent.groups}

PathDataWellFormed ==
  pc = "rendered" =>
    \A path \in EmittedPaths : WellFormedPathData(PathDataTokens(path.d))

\* A curved continuous path of two tiles: M, the curves of the first tile,
\* the junction curve and the curves of the second tile.
PathDataWellFormedWitness ==
  /\ pc = "rendered"
  /\ settings.curvedPaths /\ settings.continuousPaths
  /\ svgContent.metadata = <<>>
  /\ \E path \in EmittedPaths :
       /\ Len(path.tiles) = 2
       /\ Len(path.d) >= 6
       /\ \A k \in 2..Len(path.d) : path.d[k].op = "C"


(***************************************************************************)
(* Specification of the four mode processors followed by continuous        *)
(* rendering, on a grid of two rows of two cells.                          *)
(***************************************************************************)
\* The rasters and the grid of SpecRerender, in every processing mode;
\* pathDistanceThreshold 300: neighbours in a row (280 apart) share a path.
SerpentineInputs ==
  {Input([width |-> 1, height |-> 1, raster |-> ra],
         [MakeSettings(mode, 2, 1, 2, RerenderGrid[1], RerenderGrid[2])
            EXCEPT !.continuousPaths = TRUE, !.pathDistanceThreshold = 300]) :
     ra \in RerenderRasters, mode \in PromiseModes}

OnloadSerpentine == Onload(SerpentineInputs)

NextSerpentine ==
  OnloadSerpentine \/ DeferredProcess \/ GenerateSVG \/ ImageProcessorGenerateSVG

SpecSerpentine == InitPipeline /\ [][NextSerpentine]_vars

(***************************************************************************)
(* C17.  Serpentine order: every PathPoint a mode processor creates is the *)
(* point of a retained grid cell (col,row): direction +1 and anchor        *)
(* x = col*gridSizeX when row is even, direction -1 and anchor             *)
(* x = (col+1)*gridSizeX when row is odd, anchor y = row*gridSizeY; after  *)
(* the sort in generateContinuousPath the points of a group are ordered by *)
(* non-decreasing row, by increasing x inside even rows and by decreasing  *)
(* x inside odd rows.                                                      *)
(***************************************************************************)
IsPointOfCell(point, col, row, s) ==
  /\ point.row = row
  /\ point.direction = (IF row % 2 = 0 THEN 1 ELSE -1)
  /\ NormFrac(point.x) =
       NormFrac(FracMul(IF row % 2 = 0 THEN col ELSE col + 1, s.gridSizeX))
  /\ NormFrac(point.y) = NormFrac(FracMul(row, s.gridSizeY))

SerpentineOrdered(points) ==
  \A i, j \in DOMAIN points :
    i < j =>
      /\ points[i].row <= points[j].row
      /\ points[i].row = points[j].row =>
           IF points[i].row % 2 = 0 THEN FracLess(points[i].x, points[j].x)
           ELSE FracLess(points[j].x, points[i].x)

SerpentineOrder ==
  /\ pc \in {"processed", "rendered"} =>
       \A i \in DOMAIN imageData.colorGroups :
         \A n \in DOMAIN imageData.colorGroups[i].points :
           \E k \in DOMAIN imageData.pixels :
             IsPointOfCell(imageData.colorGroups[i].points[n],
                           imageData.pixels[k].x, imageData.pixels[k].y, settings)
  /\ (pc = "rendered" /\ settings.continuousPaths) =>
       \A i \in DOMAIN imageData.colorGroups :
         ~Hidden(settings.visiblePaths, imageData.colorGroups[i].key) =>
           SerpentineOrdered(imageData.colorGroups[i].points)

\* A sorted group with two points in row 0 and two points in row 1: the
\* second row is held from right to left.
SerpentineOrderWitness ==
  /\ pc = "rendered"
  /\ settings.continuousPaths
  /\ \E i \in DOMAIN imageData.colorGroups :
       LET points == imageData.colorGroups[i].points
       IN /\ ~Hidden(settings.visiblePaths, imageData.colorGroups[i].key)
          /\ Len(points) = 4
          /\ points[1].row = 0 /\ points[2].row = 0
          /\ points[3].row = 1 /\ points[4].row = 1
          /\ FracLess(points[4].x, points[3].x)


(***************************************************************************)
(* processImage under the scheduling of the browser: the image element     *)
(* fires load or error, and a timer set with setTimeout(.., 0) runs.       *)
(***************************************************************************)
\* A pending callback (load or error of the image, the timer of the deferred
\* step) runs: the position moves on.  In every state with pc idle or sampled
\* a step of NextPromise is possible and every such step changes pc, so weak
\* fairness of this action is weak fairness of NextPromise.
CallbackRuns ==
  /\ pc \in {"idle", "sampled"}
  /\ pc' \in {"sampled", "processed", "rejected"}

SpecPromiseFair == InitPipeline /\ [][NextPromise]_vars /\ WF_pc(CallbackRuns)

(***************************************************************************)
(* C18.  processImage settles exactly once and in order: resolve or reject *)
(* is called at most once and a settled promise never changes; the promise *)
(* is fulfilled only by the deferred step, taken after the load handler    *)
(* has sampled the image, and then the ImageData holds the complete        *)
(* colorGroups of the mode processor; an exception thrown by the mode      *)
(* processor in the deferred step rejects the promise and leaves the       *)
(* ImageData without colorGroups; the promise is eventually settled.       *)
(***************************************************************************)
SampledData(data) == [data EXCEPT !.hasColorGroups = FALSE, !.colorGroups = <<>>]

ResolvedWithColorGroups ==
  promise.state = "fulfilled" =>
    /\ pc = "processed"
    /\ img # None
    /\ imageData.hasColorGroups
    /\ \E out \in ModeOutcomes(SampledData(imageData), settings) :
         /\ out.kind = "groups"
         /\ out.groups = imageData.colorGroups

ResolvedByDeferredStep ==
  (promise.state # "fulfilled" /\ promise'.state = "fulfilled") =>
    /\ pc = "sampled"
    /\ promise.calls = <<>>
    /\ imageData'.pixels = imageData.pixels

ThrowRejects ==
  (pc = "sampled" /\ pc' # "processed") =>
    /\ promise'.state = "rejected"
    /\ promise'.calls = <<"reject">>
    /\ imageData' = imageData
    /\ ~imageData'.hasColorGroups

SettlesOnceInOrder ==
  /\ [](Len(promise.calls) <= 1)
  /\ []ResolvedWithColorGroups
  /\ [][ResolvedByDeferredStep]_vars
  /\ [][ThrowRejects]_vars
  /\ [][promise.state # "pending" => promise' = promise]_vars
  /\ <>(promise.state # "pending")

\* The mode processor threw in the deferred step (posterize with no colour
\* to cluster): the image was sampled, the promise is rejected.
SettlesOnceInOrderWitness ==
  /\ pc = "rejected"
  /\ imageData # None
  /\ settings.processingMode = "posterize"
  /\ promise.state = "rejected"
  /\ promise.calls = <<"reject">>


(***************************************************************************)
(* Specification of the grayscale processor with 2 up to LevelsMaxColors   *)
(* gray levels; brightnessThreshold 170 drops the white cells.             *)
(***************************************************************************)
LevelsMaxColors == 4

LevelsGrid == <<2, 2>>

LevelsInputs ==
  {Input([width |-> 1, height |-> 1, raster |-> ra],
         [MakeSettings("grayscale", k, 1, 2, LevelsGrid[1], LevelsGrid[2])
            EXCEPT !.brightnessThreshold = 170]) :
     ra \in Rasters(LevelsGrid[1], LevelsGrid[2], GrayPalette),
     k \in 2..LevelsMaxColors}

OnloadLevels == Onload(LevelsInputs)

NextLevels == OnloadLevels \/ DeferredProcess \/ CallProcessGrayscale

SpecLevels == InitPipeline /\ [][NextLevels]_vars

(***************************************************************************)
(* C19.  Grayscale quantisation: processGrayscale builds colorsAmt (>= 2)  *)
(* gray levels evenly spaced from the minimum to the maximum brightness of *)
(* the retained pixels (level j is the integer nearest to                  *)
(* min + (j-1)*(max-min)/(colorsAmt-1)), one group per level value, and    *)
(* puts each pixel into the group of a level with minimal                  *)
(* |level - brightness|, the first such level of the list on a tie.        *)
(***************************************************************************)
Brightnesses(pixels) == {pixels[i].brightness : i \in DOMAIN pixels}

EvenlySpaced(levels, lo, hi) ==
  LET k == Len(levels)
  IN /\ levels[1] = lo
     /\ levels[k] = hi
     /\ \A j \in 1..k :
          2 * Abs((k - 1) * levels[j] - ((k - 1) * lo + (j - 1) * (hi - lo))) <= k - 1

\* The first level of the list at minimal distance from brightness b.
FirstNearest(levels, b) ==
  LET best == SetMin({Abs(levels[j] - b) : j \in DOMAIN levels})
  IN levels[SetMin({j \in DOMAIN levels : Abs(levels[j] - b) = best})]

GroupsHolding(pixel) ==
  {i \in DOMAIN imageData.colorGroups :
     \E n \in DOMAIN imageData.colorGroups[i].points :
       IsPointOfCell(imageData.colorGroups[i].points[n], pixel.x, pixel.y, settings)}

GrayscaleQuantisation ==
  (pc = "processed" /\ settings.processingMode = "grayscale") =>
    LET pixels == imageData.pixels
        levels == grayLevels(pixels, settings.colorsAmt)
    IN /\ Len(levels) = settings.colorsAmt
       /\ pixels # <<>> =>
            EvenlySpaced(levels, SetMin(Brightnesses(pixels)), SetMax(Brightnesses(pixels)))
       /\ {imageData.colorGroups[i].key : i \in DOMAIN imageData.colorGroups}
            = {GrayKey(levels[j]) : j \in DOMAIN levels}
       /\ \A k \in DOMAIN pixels :
            \E i \in DOMAIN imageData.colorGroups :
              /\ GroupsHolding(pixels[k]) = {i}
              /\ imageData.colorGroups[i].key
                   = GrayKey(FirstNearest(levels, pixels[k].brightness))

\* Four levels 0, 57, 113, 170 and a pixel of brightness 85, as near to the
\* second level as to the third: it is in the group of 57.
GrayscaleQuantisationWitness ==
  /\ pc = "processed"
  /\ settings.processingMode = "grayscale"
  /\ settings.colorsAmt = 4
  /\ grayLevels(imageData.pixels, 4) = <<0, 57, 113, 170>>
  /\ \E k \in DOMAIN imageData.pixels :
       /\ imageData.pixels[k].brightness = 85
       /\ \E i \in GroupsHolding(imageData.pixels[k]) :
            imageData.colorGroups[i].key = GrayKey(57)


(***************************************************************************)
(* Specification of findNearestCentroidIndex: a colour and a list of 1 up  *)
(* to MaxCentroids centroids, then the call and a second call on the same  *)
(* arguments.                                                              *)
(***************************************************************************)
MaxCentroids == 3

NearestColors == {<<10, 10, 10>>, <<11, 10, 10>>, <<10, 11, 10>>, <<10, 12, 11>>}

\* The colours themselves and the average of two of them, (10.5, 10, 10).
NearestCentroids ==
  {Centroid(c) : c \in NearestColors} \cup {averageColor(<<<<10, 10, 10>>, <<11, 10, 10>>>>)}

InitNearest ==
  /\ home = None
  /\ loader = None
  /\ pc = "nearest"
  /\ kmeans = None
  /\ settings = None
  /\ imageData = None
  /\ svgContent = None
  /\ extracted = None
  /\ dimCall = None
  /\ promise = None
  /\ img = None
  /\ \E color \in NearestColors, k \in 1..MaxCentroids :
       \E centroids \in [1..k -> NearestCentroids] :
         nearestCall = [kind |-> "call", color |-> color, centroids |-> centroids]

CallFindNearestCentroidIndex ==
  /\ pc = "nearest"
  /\ nearestCall.kind = "call"
  /\ nearestCall' = [kind |-> "returned", color |-> nearestCall.color,
                     centroids |-> nearestCall.centroids,
                     result |-> findNearestCentroidIndex(nearestCall.color,
                                                         nearestCall.centroids)]
  /\ UNCHANGED <<pc, settings, imageData, svgContent, extracted, dimCall, promise, img, kmeans, home, loader>>

CallFindNearestCentroidIndexAgain ==
  /\ pc = "nearest"
  /\ nearestCall.kind = "returned"
  /\ nearestCall' = [kind |-> "reassigned", color |-> nearestCall.color,
                     centroids |-> nearestCall.centroids,
                     result |-> nearestCall.result,
                     again |-> findNearestCentroidIndex(nearestCall.color,
                                                        nearestCall.centroids)]
  /\ UNCHANGED <<pc, settings, imageData, svgContent, extracted, dimCall, promise, img, kmeans, home, loader>>

NextNearest == CallFindNearestCentroidIndex \/ CallFindNearestCentroidIndexAgain

SpecNearest == InitNearest /\ [][NextNearest]_vars

(***************************************************************************)
(* C20.  Nearest-centroid assignment is stable: for any colour and any     *)
(* non-empty centroid list findNearestCentroidIndex returns the lowest     *)
(* index among the centroids at minimal Euclidean RGB distance, and a      *)
(* second call on the same list returns the same index.                    *)
(***************************************************************************)
NearestCentroidStable ==
  /\ nearestCall.kind \in {"returned", "reassigned"} =>
       LET color == nearestCall.color
           centroids == nearestCall.centroids
           result == nearestCall.result
       IN /\ result \in DOMAIN centroids
          /\ \A j \in DOMAIN centroids : ~CloserThan(color, centroids[j], centroids[result])
          /\ \A j \in 1..(result - 1) : CloserThan(color, centroids[result], centroids[j])
  /\ nearestCall.kind = "reassigned" => nearestCall.again = nearestCall.result

\* (10,10,10) against (10,12,11), (11,10,10), (10,11,10): the second and the
\* third centroid are both at distance 1, the second is returned, twice.
NearestCentroidStableWitness ==
  /\ nearestCall.kind = "reassigned"
  /\ nearestCall.color = <<10, 10, 10>>
  /\ nearestCall.centroids
       = <<Centroid(<<10, 12, 11>>), Centroid(<<11, 10, 10>>), Centroid(<<10, 11, 10>>)>>
  /\ nearestCall.result = 2
  /\ nearestCall.again = 2


(***************************************************************************)
(* Specification of kMeansClustering, one step per pass of its refinement  *)
(* loop: a list of 0 up to KMeansMaxColors different colours and k from 1  *)
(* up to KMeansMaxK.                                                       *)
(***************************************************************************)
KMeansMaxColors == 3

KMeansMaxK == 3

\* (0,0,0) and (1,0,0) are less than 1 apart in every channel.
KMeansPalette ==
  {<<0, 0, 0>>, <<1, 0, 0>>, <<20, 0, 0>>, <<100, 0, 0>>, <<255, 255, 255>>}

KMeansColorLists ==
  UNION {{c \in [1..n -> KMeansPalette] : \A a, b \in 1..n : a # b => c[a] # c[b]} :
           n \in 0..KMeansMaxColors}

InitKMeans ==
  /\ home = None
  /\ loader = None
  /\ pc = "kmeans"
  /\ settings = None
  /\ imageData = None
  /\ svgContent = None
  /\ extracted = None
  /\ dimCall = None
  /\ promise = None
  /\ img = None
  /\ nearestCall = None
  /\ \E colors \in KMeansColorLists, k \in 1..KMeansMaxK :
       kmeans = [kind |-> "call", colors |-> colors, k |-> k]

\* colorsToProcess: the colours, subsampled when there are too many.
KMeansSample ==
  /\ pc = "kmeans"
  /\ kmeans.kind = "call"
  /\ kmeans' = [kind |-> "sampled", colors |-> kmeans.colors, k |-> kmeans.k,
                colorsToProcess |-> SampleColors(kmeans.colors)]
  /\ UNCHANGED <<pc, settings, imageData, svgContent, extracted, dimCall, promise, img,
                 nearestCall, home, loader>>

\* Random selection of the initial centroids and padding up to k centroids;
\* padding an empty list throws.
KMeansStart ==
  /\ pc = "kmeans"
  /\ kmeans.kind = "sampled"
  /\ \E initial \in InitialCentroidChoices(kmeans.colorsToProcess, kmeans.k) :
       kmeans' =
         IF kMeansThrows(kmeans.colors, kmeans.k)
         THEN [kind |-> "thrown", colors |-> kmeans.colors, k |-> kmeans.k]
         ELSE [kind |-> "loop", colors |-> kmeans.colors, k |-> kmeans.k,
               colorsToProcess |-> kmeans.colorsToProcess,
               initial |-> initial,
               centroids |-> PadCentroids(initial, kmeans.k),
               oldCentroids |-> <<>>, iterations |-> 0]
  /\ UNCHANGED <<pc, settings, imageData, svgContent, extracted, dimCall, promise, img,
                 nearestCall, home, loader>>

\* One pass of the while loop.
KMeansIterate ==
  /\ pc = "kmeans"
  /\ kmeans.kind = "loop"
  /\ LoopContinues(kmeans.centroids, kmeans.oldCentroids, kmeans.iterations)
  /\ kmeans' = [kmeans EXCEPT
                  !.oldCentroids = kmeans.centroids,
                  !.centroids = UpdateCentroids(kmeans.colorsToProcess, kmeans.k,
                                                kmeans.centroids),
                  !.iterations = kmeans.iterations + 1]
  /\ UNCHANGED <<pc, settings, imageData, svgContent, extracted, dimCall, promise, img,
                 nearestCall, home, loader>>

\* The loop condition is false: the centroids are rounded and returned.
KMeansReturn ==
  /\ pc = "kmeans"
  /\ kmeans.kind = "loop"
  /\ ~LoopContinues(kmeans.centroids, kmeans.oldCentroids, kmeans.iterations)
  /\ kmeans' = [kind |-> "returned", colors |-> kmeans.colors, k |-> kmeans.k,
                initial |-> kmeans.initial,
                centroids |-> kmeans.centroids,
                oldCentroids |-> kmeans.oldCentroids,
                iterations |-> kmeans.iterations,
                result |-> [i \in DOMAIN kmeans.centroids |->
                              <<Round(kmeans.centroids[i].s[1], kmeans.centroids[i].n),
                                Round(kmeans.centroids[i].s[2], kmeans.centroids[i].n),
                                Round(kmeans.centroids[i].s[3], kmeans.centroids[i].n)>>]]
  /\ UNCHANGED <<pc, settings, imageData, svgContent, extracted, dimCall, promise, img,
                 nearestCall, home, loader>>

NextKMeans == KMeansSample \/ KMeansStart \/ KMeansIterate \/ KMeansReturn

SpecKMeans == InitKMeans /\ [][NextKMeans]_vars

\* The function runs on: no step of it is postponed for ever.
SpecKMeansFair == SpecKMeans /\ WF_vars(NextKMeans)

\* The loop of the steps computes what the operator kMeansClustering computes.
KMeansStepsAgree ==
  kmeans.kind = "returned" =>
    kmeans.result = kMeansClustering(kmeans.colors, kmeans.k, kmeans.initial)


(***************************************************************************)
(* C21.  k-means termination: for every non-empty colour list and k >= 1   *)
(* the refinement loop of kMeansClustering makes at most 10 passes; a pass *)
(* is made only while some channel of some centroid changed by 1 or more   *)
(* in the previous pass, and the loop is left only after 10 passes or when *)
(* no channel changed by 1 or more; a cluster left empty keeps its         *)
(* previous centroid; the function terminates.                             *)
(***************************************************************************)
\* Every channel of every centroid differs by less than 1 from the previous pass.
ChangedByLessThanOne(centroids, oldCentroids) ==
  /\ Len(centroids) = Len(oldCentroids)
  /\ \A i \in DOMAIN centroids : \A ch \in 1..3 :
       LET diff == centroids[i].s[ch] * oldCentroids[i].n
                     - oldCentroids[i].s[ch] * centroids[i].n
           unit == centroids[i].n * oldCentroids[i].n
       IN -unit < diff /\ diff < unit

KMeansPass ==
  (kmeans.kind = "loop" /\ kmeans'.kind = "loop") =>
    /\ kmeans'.iterations = kmeans.iterations + 1
    /\ kmeans.iterations < 10
    /\ kmeans.iterations > 0 =>
         ~ChangedByLessThanOne(kmeans.centroids, kmeans.oldCentroids)
    /\ \A i \in 1..kmeans.k :
         (\A j \in DOMAIN kmeans.colorsToProcess :
            findNearestCentroidIndex(kmeans.colorsToProcess[j], kmeans.centroids) # i)
           => kmeans'.centroids[i] = kmeans.centroids[i]

KMeansLoopExit ==
  (kmeans.kind = "loop" /\ kmeans'.kind = "returned") =>
    /\ kmeans.iterations >= 1
    /\ \/ kmeans.iterations = 10
       \/ ChangedByLessThanOne(kmeans.centroids, kmeans.oldCentroids)

ColorOfIndex(n) == <<(n \div 65536) % 256, (n \div 256) % 256, n % 256>>

DistinctColorList(len) == [j \in 1..len |-> ColorOfIndex(j - 1)]

SubsampleLengths ==
  (9990..10010) \cup {19999, 20000, 20001, 25000, 30000}

InitSubsample ==
  /\ home = None
  /\ loader = None
  /\ pc = "kmeans"
  /\ settings = None
  /\ imageData = None
  /\ svgContent = None
  /\ extracted = None
  /\ dimCall = None
  /\ promise = None
  /\ img = None
  /\ nearestCall = None
  /\ \E len \in SubsampleLengths, k \in 1..KMeansMaxK :
       kmeans = [kind |-> "call", colors |-> DistinctColorList(len), k |-> k]

NextSubsample == KMeansSample

SpecSubsample == InitSubsample /\ [][NextSubsample]_vars

(***************************************************************************)
(* C22.  k-means subsampling bound: whenever more than 10,000 distinct     *)
(* colours are passed to kMeansClustering, colorsToProcess contains at     *)
(* most 10,000 colours; with 10,000 or fewer colours all of them are       *)
(* clustered.                                                              *)
(***************************************************************************)
SubsamplingBound ==
  kmeans.kind = "sampled" =>
    IF Len(kmeans.colors) > 10000
    THEN Len(kmeans.colorsToProcess) <= 10000
    ELSE kmeans.colorsToProcess = kmeans.colors


(***************************************************************************)
(* C23.  Straight zigzag geometry: for a tile with anchor (x,y), width w,  *)
(* height h, direction dir and density d >= 1 the straight segment that    *)
(* createTilePathDataWithTangent adds to a continuous path has exactly d   *)
(* vertical legs, the i-th (i = 0..d-1) at abscissa x + i*(w/d)*dir,       *)
(* going down to y+h when i is even and up to y when i is odd, each        *)
(* followed by a horizontal stroke to the next abscissa; the last vertex   *)
(* is at the far edge x + w*dir, at level y when d is even and y+h when d  *)
(* is odd.                                                                 *)
(***************************************************************************)
\* The point of the group that is drawn at an anchor.
DrawnPointAt(group, anchor) ==
  CHOOSE point \in {group.points[j] : j \in DOMAIN group.points} :
    point.density > 0 /\ Anchor(point) = anchor

\* The number of commands of d before the segment of tile t: the M and the
\* two strokes per vertical leg of the tiles before.
RECURSIVE CommandsBefore(_, _, _)
CommandsBefore(group, tiles, t) ==
  IF t = 1 THEN 1
  ELSE CommandsBefore(group, tiles, t - 1) + 2 * DrawnPointAt(group, tiles[t - 1]).density

\* The vertices of seg that end a vertical leg: same abscissa as the vertex
\* before (the anchor, for the first), another ordinate.
VerticalLegs(seg, point) ==
  {n \in DOMAIN seg :
     LET before == IF n = 1 THEN Cmd("L", point.x, point.y) ELSE seg[n - 1]
     IN seg[n].x = before.x /\ seg[n].y # before.y}

ZigzagGeometry(seg, point) ==
  LET d == point.density
      top == NormFrac(point.y)
      bottom == NormFrac(FracAdd(point.y, point.height))
      abscissa(i) == NormFrac(FracAdd(point.x,
                        <<i * point.direction * point.width[1], point.width[2] * d>>))
  IN /\ Len(seg) = 2 * d
     /\ \A n \in DOMAIN seg : seg[n].op = "L"
     /\ \A i \in 0..(d - 1) :
          /\ seg[2 * i + 1].x = abscissa(i)
          /\ seg[2 * i + 1].y = (IF i % 2 = 0 THEN bottom ELSE top)
          /\ seg[2 * i + 2].x = abscissa(i + 1)
          /\ seg[2 * i + 2].y = seg[2 * i + 1].y
     /\ VerticalLegs(seg, point) = {2 * i + 1 : i \in 0..(d - 1)}
     /\ Cardinality(VerticalLegs(seg, point)) = d
     /\ seg[2 * d].x = NormFrac(FracAdd(point.x, FracMul(point.direction, point.width)))
     /\ seg[2 * d].y = (IF d % 2 = 0 THEN top ELSE bottom)

StraightZigzagGeometry ==
  (/\ pc = "rendered"
   /\ settings.continuousPaths
   /\ ~settings.curvedPaths
   /\ svgContent.metadata = <<>>) =>
    \A i \in DOMAIN imageData.colorGroups :
      \A g \in {svgContent.groups[n] : n \in DOMAIN svgContent.groups} :
        IsElementFor(g, imageData.colorGroups[i].key) =>
          \A m \in DOMAIN g.paths : \A t \in DOMAIN g.paths[m].tiles :
            LET group == imageData.colorGroups[i]
                path == g.paths[m]
                point == DrawnPointAt(group, path.tiles[t])
                from == CommandsBefore(group, path.tiles, t)
            IN /\ Len(path.d) >= from + 2 * point.density
               /\ ZigzagGeometry(SubSeq(path.d, from + 1, from + 2 * point.density), point)
               /\ t = Len(path.tiles) => Len(path.d) = from + 2 * point.density

\* A straight continuous path of a tile of density 1 followed by a tile of
\* density 2: seven commands.
StraightZigzagGeometryWitness ==
  /\ pc = "rendered"
  /\ settings.continuousPaths
  /\ ~settings.curvedPaths
  /\ svgContent.metadata = <<>>
  /\ \E n \in DOMAIN svgContent.groups : \E m \in DOMAIN svgContent.groups[n].paths :
       LET path == svgContent.groups[n].paths[m]
       IN /\ Len(path.tiles) = 2
          /\ Len(path.d) = 7
          /\ DrawnPointAt(imageData.colorGroups[1], path.tiles[1]).density = 1
          /\ DrawnPointAt(imageData.colorGroups[1], path.tiles[2]).density = 2


(***************************************************************************)
(* C24.  generateSVG's only effect on its input is reordering: a call      *)
(* leaves every field of the ImageData but the points arrays as it was;    *)
(* each group's points array holds the same PathPoints afterwards, every   *)
(* field unchanged (a permutation); the points of a group hidden by        *)
(* visiblePaths keep their order, per-tile mode keeps the order of every   *)
(* group, and the Settings object the call was given is not modified.      *)
(***************************************************************************)
IsPermutation(after, before) ==
  /\ Len(after) = Len(before)
  /\ \A point \in {before[j] : j \in DOMAIN before} \cup {after[j] : j \in DOMAIN after} :
       Cardinality({j \in DOMAIN after : after[j] = point})
         = Cardinality({j \in DOMAIN before : before[j] = point})

\* A step that is a call of generateSVG with the Settings of the next state.
OnlyReorders ==
  (pc \in {"processed", "rendered"} /\ pc' = "rendered") =>
    /\ [imageData' EXCEPT !.colorGroups = imageData.colorGroups] = imageData
    /\ DOMAIN imageData'.colorGroups = DOMAIN imageData.colorGroups
    /\ \A i \in DOMAIN imageData.colorGroups :
         LET before == imageData.colorGroups[i]
             after == imageData'.colorGroups[i]
         IN /\ [after EXCEPT !.points = before.points] = before
            /\ IsPermutation(after.points, before.points)
            /\ Hidden(settings'.visiblePaths, before.key) => after.points = before.points
            /\ ~settings'.continuousPaths => after.points = before.points
    /\ [settings' EXCEPT !.visiblePaths = settings.visiblePaths] = settings

GenerateSVGOnlyReorders == [][OnlyReorders]_vars

\* After a continuous rendering of a drawn group of three points: the points
\* array is in the order in which the tiles were drawn.
GenerateSVGOnlyReordersWitness ==
  /\ pc = "rendered"
  /\ settings.continuousPaths
  /\ ~Hidden(settings.visiblePaths, imageData.colorGroups[1].key)
  /\ Len(imageData.colorGroups[1].points) = 3
  /\ \A j \in 1..3 : imageData.colorGroups[1].points[j].density > 0
  /\ svgContent.groups # <<>>
  /\ TilesOf(svgContent.groups[1].paths)
       = [j \in 1..3 |-> Anchor(imageData.colorGroups[1].points[j])]


(***************************************************************************)
(* C25.  Junction placement: in a path of generateContinuousPath           *)
(* (svg-utils.ts) a junction curve, a C command that ends at the anchor of *)
(* the next tile, stands before the own segment of a tile if and only if   *)
(* curvedPaths is true and the tile is not the first tile of its path (the *)
(* first drawn tile of the group or the first after a distance break);     *)
(* with curvedPaths false and in per-tile mode no junction is emitted.     *)
(***************************************************************************)
\* The number of commands of the own segment of a tile: two strokes per leg
\* in straight mode, a vertical curve per leg and a horizontal curve
\* between two legs in curved mode.
OwnSegmentLength(point, curved) ==
  IF curved THEN 2 * point.density - 1 ELSE 2 * point.density

\* The index in d of the first command of the own segment of tile t, when a
\* junction stands before every tile but the first exactly in curved mode.
RECURSIVE OwnSegmentStart(_, _, _, _)
OwnSegmentStart(group, tiles, t, curved) ==
  IF t = 1 THEN 2
  ELSE OwnSegmentStart(group, tiles, t - 1, curved)
         + OwnSegmentLength(DrawnPointAt(group, tiles[t - 1]), curved)
         + (IF curved THEN 1 ELSE 0)

IsJunctionTo(cmd, anchor) == cmd.op = "C" /\ cmd.x = anchor[1] /\ cmd.y = anchor[2]

\* The first command of the own segment of a tile draws its first leg, down
\* from the anchor.
StartsOwnSegment(cmd, point, curved) ==
  /\ cmd.op = (IF curved THEN "C" ELSE "L")
  /\ cmd.x = NormFrac(point.x)
  /\ cmd.y = NormFrac(FracAdd(point.y, point.height))

JunctionsOfPath(group, path, curved) ==
  \A t \in DOMAIN path.tiles :
    LET point == DrawnPointAt(group, path.tiles[t])
        from == OwnSegmentStart(group, path.tiles, t, curved)
    IN /\ Len(path.d) >= from + OwnSegmentLength(point, curved) - 1
       /\ StartsOwnSegment(path.d[from], point, curved)
       /\ IsJunctionTo(path.d[from - 1], path.tiles[t]) <=> (curved /\ t > 1)
       /\ t = Len(path.tiles) =>
            Len(path.d) = from + OwnSegmentLength(point, curved) - 1

JunctionPlacement ==
  (pc = "rendered" /\ svgContent.metadata = <<>>) =>
    \A i \in DOMAIN imageData.colorGroups :
      \A g \in {svgContent.groups[n] : n \in DOMAIN svgContent.groups} :
        IsElementFor(g, imageData.colorGroups[i].key) =>
          \A m \in DOMAIN g.paths :
            /\ ~settings.continuousPaths => Len(g.paths[m].tiles) = 1
            /\ JunctionsOfPath(imageData.colorGroups[i], g.paths[m], settings.curvedPaths)
            /\ ~settings.curvedPaths =>
                 \A n \in DOMAIN g.paths[m].d : g.paths[m].d[n].op # "C"

\* A curved continuous path of two tiles of density 1: M, the curve of the
\* first tile, the junction to the anchor of the second, its curve.
JunctionPlacementWitness ==
  /\ pc = "rendered"
  /\ svgContent.metadata = <<>>
  /\ settings.continuousPaths
  /\ settings.curvedPaths
  /\ \E n \in DOMAIN svgContent.groups : \E m \in DOMAIN svgContent.groups[n].paths :
       LET path == svgContent.groups[n].paths[m]
       IN /\ Len(path.tiles) = 2
          /\ Len(path.d) = 4
          /\ IsJunctionTo(path.d[3], path.tiles[2])
          /\ ~IsJunctionTo(path.d[2], path.tiles[1])


(***************************************************************************)
(* The Home component (app/page.tsx).  Its first effect starts             *)
(* handleProcessImage whenever originalImage or a processing setting       *)
(* changes; handleProcessImage awaits processImage and then stores what    *)
(* it got, whichever call it belongs to.  The ImageData of a call is       *)
(* identified by the arguments of the call; of the settings only           *)
(* columnsCount is kept.  runs lists the calls of processImage in the      *)
(* order they were started.                                                *)
(***************************************************************************)
MaxRuns == 3

HomeImages ==
  {[kind |-> "dataUrl", name |-> "first"], [kind |-> "dataUrl", name |-> "second"]}

HomeColumns == {10, 20}

InitHome ==
  /\ home = [originalImage |-> None, columnsCount |-> 10,
             processedData |-> None, svgContent |-> None,
             isProcessing |-> FALSE, runs |-> <<>>]
  /\ loader = None
  /\ pc = "home"
  /\ settings = None
  /\ imageData = None
  /\ svgContent = None
  /\ extracted = None
  /\ dimCall = None
  /\ promise = None
  /\ img = None
  /\ nearestCall = None
  /\ kmeans = None

\* The ImageData processImage resolves with for the arguments of a run.
ImageDataOfRun(run) ==
  [kind |-> "imageData", image |-> run.image, columnsCount |-> run.columnsCount]

\* The start of handleProcessImage, up to its await.
StartProcessImage(h) ==
  [h EXCEPT !.isProcessing = TRUE,
            !.runs = Append(h.runs, [image |-> h.originalImage,
                                     columnsCount |-> h.columnsCount,
                                     status |-> "pending"])]

\* The effects that regenerate the SVG from processedData under the
\* settings of the current render, once isProcessing is false.
RegenerateSVG(h) ==
  IF h.processedData # None /\ h.originalImage # None /\ ~h.isProcessing
  THEN [h EXCEPT !.svgContent = [kind |-> "svg", data |-> h.processedData,
                                      columnsCount |-> h.columnsCount]]
  ELSE h

handleImageUpload ==
  /\ pc = "home"
  /\ Len(home.runs) < MaxRuns
  /\ \E image \in HomeImages :
       /\ image # home.originalImage
       /\ home' = StartProcessImage([home EXCEPT !.originalImage = image])
  /\ UNCHANGED <<pc, settings, imageData, svgContent, extracted, dimCall, promise, img,
                 nearestCall, kmeans, loader>>

handleSettingsChange ==
  /\ pc = "home"
  /\ Len(home.runs) < MaxRuns
  /\ \E columns \in HomeColumns :
       /\ columns # home.columnsCount
       /\ home' = IF home.originalImage # None
                  THEN StartProcessImage([home EXCEPT !.columnsCount = columns])
                  ELSE [home EXCEPT !.columnsCount = columns]
  /\ UNCHANGED <<pc, settings, imageData, svgContent, extracted, dimCall, promise, img,
                 nearestCall, kmeans, loader>>

\* The continuation of handleProcessImage after its await, when the promise
\* of run i is fulfilled.
ContinueProcessImage(h, i) ==
  [h EXCEPT !.runs[i].status = "fulfilled",
            !.processedData = ImageDataOfRun(h.runs[i]),
            !.svgContent = [kind |-> "svg", data |-> ImageDataOfRun(h.runs[i]),
                            columnsCount |-> h.runs[i].columnsCount],
            !.isProcessing = FALSE]

ProcessImageFulfilled ==
  /\ pc = "home"
  /\ \E i \in DOMAIN home.runs :
       /\ home.runs[i].status = "pending"
       /\ home' = RegenerateSVG(ContinueProcessImage(home, i))
  /\ UNCHANGED <<pc, settings, imageData, svgContent, extracted, dimCall, promise, img,
                 nearestCall, kmeans, loader>>

ProcessImageRejected ==
  /\ pc = "home"
  /\ \E i \in DOMAIN home.runs :
       /\ home.runs[i].status = "pending"
       /\ home' = RegenerateSVG([home EXCEPT !.runs[i].status = "rejected",
                                             !.isProcessing = FALSE])
  /\ UNCHANGED <<pc, settings, imageData, svgContent, extracted, dimCall, promise, img,
                 nearestCall, kmeans, loader>>

NextHome ==
  \/ handleImageUpload
  \/ handleSettingsChange
  \/ ProcessImageFulfilled
  \/ ProcessImageRejected

SpecHome == InitHome /\ [][NextHome]_vars

(***************************************************************************)
(* C26.  Last-write-wins in the caller: once every run that Home started   *)
(* has completed, and the run started last was fulfilled, the displayed    *)
(* processedData and svgContent are those of the run started last,         *)
(* whatever the order in which the runs finished.                          *)
(***************************************************************************)
LastWriteWins ==
  LET n == Len(home.runs) IN
    ( /\ n >= 2
      /\ \A i \in 1..n : home.runs[i].status # "pending"
      /\ home.runs[n].status = "fulfilled" )
    => /\ home.processedData = ImageDataOfRun(home.runs[n])
       /\ home.svgContent.data = ImageDataOfRun(home.runs[n])


(***************************************************************************)
(* C27.  Continuous-path partition: for each colour group the <path>       *)
(* elements of generateContinuousPath split the sorted sequence of the     *)
(* points of non-zero density into consecutive runs: every such point      *)
(* gives its tile segment to exactly one path, in sorted order, no path is *)
(* empty, and the number of paths is 1 plus the number of consecutive      *)
(* pairs whose anchors are farther apart than pathDistanceThreshold (0     *)
(* paths when the group has no point of non-zero density).                 *)
(***************************************************************************)
SortedDrawnPoints(group) ==
  SelectSeq(SortPoints(group.points), LAMBDA point : point.density > 0)

DistanceBreaks(drawn, threshold) ==
  {j \in 1..(Len(drawn) - 1) :
     FarApart(Anchor(drawn[j]), Anchor(drawn[j + 1]), threshold)}

RECURSIVE SegmentCommands(_, _)
SegmentCommands(points, curved) ==
  IF points = <<>> THEN 0
  ELSE OwnSegmentLength(points[1], curved) + SegmentCommands(Tail(points), curved)

\* The first position in drawn of the tiles of path m: the paths before it
\* hold the points before it.
RECURSIVE FirstTileOf(_, _)
FirstTileOf(paths, m) ==
  IF m = 1 THEN 1 ELSE FirstTileOf(paths, m - 1) + Len(paths[m - 1].tiles)

PartitionsIntoRuns(group, paths, s, withSegments) ==
  LET drawn == SortedDrawnPoints(group)
  IN /\ TilesOf(paths) = [j \in DOMAIN drawn |-> Anchor(drawn[j])]
     /\ \A m \in DOMAIN paths : paths[m].tiles # <<>> /\ Len(paths[m].d) > 1
     /\ Len(paths) = IF drawn = <<>> THEN 0
                     ELSE 1 + Cardinality(DistanceBreaks(drawn, s.pathDistanceThreshold))
     /\ withSegments =>
          \A m \in DOMAIN paths :
            LET from == FirstTileOf(paths, m)
                own == SubSeq(drawn, from, from + Len(paths[m].tiles) - 1)
            IN Len(paths[m].d) = 1 + SegmentCommands(own, s.curvedPaths)
                                   + (IF s.curvedPaths THEN Len(own) - 1 ELSE 0)

ContinuousPathPartition ==
  (pc = "rendered" /\ settings.continuousPaths) =>
    \A i \in DOMAIN imageData.colorGroups :
      \A g \in {svgContent.groups[n] : n \in DOMAIN svgContent.groups} :
        IsElementFor(g, imageData.colorGroups[i].key) =>
          PartitionsIntoRuns(imageData.colorGroups[i], g.paths, settings,
                             svgContent.metadata = <<>>)

\* Three drawn points and one of density 0 in a group: two neighbours in a
\* first path, the far point alone in a second.
ContinuousPathPartitionWitness ==
  /\ pc = "rendered"
  /\ settings.continuousPaths
  /\ svgContent.metadata = <<>>
  /\ \E i \in DOMAIN imageData.colorGroups :
       /\ Len(imageData.colorGroups[i].points) = 3
       /\ Len(SortedDrawnPoints(imageData.colorGroups[i])) = 3
       /\ Cardinality(DistanceBreaks(SortedDrawnPoints(imageData.colorGroups[i]),
                                     settings.pathDistanceThreshold)) = 1
       /\ \E g \in {svgContent.groups[n] : n \in DOMAIN svgContent.groups} :
            /\ IsElementFor(g, imageData.colorGroups[i].key)
            /\ Len(g.paths) = 2


(***************************************************************************)
(* Specification of the three processors that give one point per pixel:    *)
(* grayscale, posterize and monochrome, on images of which the brightness  *)
(* filter retains all, some or none of the pixels.                         *)
(***************************************************************************)
PartitionGrid == <<2, 2>>

PartitionMaxColors == 3

\* Brightness 0, 76 and 255.
PartitionPalette == {RGB(0, 0, 0), RGB(255, 0, 0), RGB(255, 255, 255)}

PartitionModes == {"grayscale", "posterize", "monochrome"}

\* brightnessThreshold 100 drops the white pixels, 255 retains every pixel.
PartitionInputs ==
  {Input([width |-> 1, height |-> 1, raster |-> ra],
         [MakeSettings(mode, k, 1, 2, PartitionGrid[1], PartitionGrid[2])
            EXCEPT !.brightnessThreshold = th]) :
     ra \in Rasters(PartitionGrid[1], PartitionGrid[2], PartitionPalette),
     mode \in PartitionModes, k \in 2..PartitionMaxColors, th \in {100, 255}}

OnloadPartition == Onload(PartitionInputs)

NextPartition == OnloadPartition \/ DeferredProcess \/ CallProcessGrayscale

SpecPartition == InitPipeline /\ [][NextPartition]_vars

(***************************************************************************)
(* C28.  Pixel-to-point partition: in grayscale, posterize and monochrome  *)
(* mode every retained pixel gives exactly one PathPoint, in exactly one   *)
(* colour group, so the point counts of the groups add up to the number of *)
(* retained pixels; the group key computed for a pixel names a group that  *)
(* was created before the pixels are assigned.                             *)
(***************************************************************************)
RECURSIVE PointCount(_)
PointCount(groups) ==
  IF groups = <<>> THEN 0 ELSE Len(groups[1].points) + PointCount(Tail(groups))

\* The places <<group, index>> of the points made for grid cell (col, row).
PlacesOfCell(groups, col, row, s) ==
  {place \in UNION {{<<i, j>> : j \in DOMAIN groups[i].points} : i \in DOMAIN groups} :
     IsPointOfCell(groups[place[1]].points[place[2]], col, row, s)}

\* The keys the assignment loop of a processor looks up, and the keys of
\* the groups its initialisation made, for given centroids (posterize).
GrayKeysLookedUp(data, s) ==
  LET levels == grayLevels(data.pixels, s.colorsAmt)
  IN {GrayKey(nearestGray(levels, data.pixels[p].brightness)) : p \in DOMAIN data.pixels}

PosterizeKeysLookedUp(data, centroids) ==
  {PosterizeKey(findNearestCentroid(
                  <<data.pixels[p].r, data.pixels[p].g, data.pixels[p].b>>,
                  [i \in DOMAIN centroids |-> Centroid(centroids[i])]).s) :
     p \in DOMAIN data.pixels}

KeysCreatedBeforehand(data, s) ==
  CASE s.processingMode = "grayscale" ->
         LET levels == grayLevels(data.pixels, s.colorsAmt)
         IN GrayKeysLookedUp(data, s) \subseteq GroupKeys(InitGrayGroups(levels, Len(levels)))
    [] s.processingMode = "posterize" ->
         kMeansThrows(PosterizeColors(data), s.colorsAmt)
         \/ \A initial \in InitialCentroidChoices(PosterizeColors(data), s.colorsAmt) :
              \A centroids \in {kMeansClustering(PosterizeColors(data), s.colorsAmt, initial)} :
                PosterizeKeysLookedUp(data, centroids)
                  \subseteq GroupKeys(InitPosterizeGroups(centroids, Len(centroids)))
    [] OTHER -> TRUE

PixelPartition ==
  /\ (pc = "sampled" /\ settings.processingMode \in PartitionModes) =>
       KeysCreatedBeforehand(imageData, settings)
  /\ (pc = "processed" /\ settings.processingMode \in PartitionModes) =>
       /\ PointCount(imageData.colorGroups) = Len(imageData.pixels)
       /\ \A p \in DOMAIN imageData.pixels :
            Cardinality(PlacesOfCell(imageData.colorGroups, imageData.pixels[p].x,
                                     imageData.pixels[p].y, settings)) = 1

\* A posterize run on an image of which one pixel was dropped: the three
\* retained pixels are spread over two groups.
PixelPartitionWitness ==
  /\ pc = "processed"
  /\ settings.processingMode = "posterize"
  /\ Len(imageData.pixels) = 3
  /\ Len(imageData.colorGroups) = 2
  /\ \A i \in DOMAIN imageData.colorGroups : imageData.colorGroups[i].points # <<>>


(***************************************************************************)
(* C29.  kMeansClustering returns exactly k integer-valued centroids and   *)
(* raises no error, for every colour list and every k >= 1, lists with     *)
(* fewer than k colours and the empty list included.                       *)
(***************************************************************************)
KMeansAlwaysReturns ==
  /\ kmeans.kind # "thrown"
  /\ kmeans.kind = "returned" =>
       /\ Len(kmeans.result) = kmeans.k
       /\ \A i \in DOMAIN kmeans.result : \A ch \in 1..3 : kmeans.result[i][ch] \in 0..255


(***************************************************************************)
(* The RandomImageLoader component (components/random-image-loader.tsx).   *)
(* loader holds its four state hooks, the timer its effect has pending     *)
(* and the call of attemptLoadImage that awaits fetchAndValidateImage,     *)
(* each with the value of retries its closure has captured.  attempts and  *)
(* failures count the fetch attempts and the consecutive failed attempts   *)
(* of the current load request, broken tells that the fetched image of the *)
(* request failed to render, requests counts the load requests.            *)
(***************************************************************************)
MAX_RETRIES == 3

MaxLoadRequests == 4

LoaderImages ==
  {[kind |-> "image", title |-> "first"], [kind |-> "image", title |-> "second"]}

\* The effect "for initial load and automatic retries": when one of its
\* dependencies changed in the render from old to new, the pending timer is
\* cleared and a new one is set if there is no image, no error and retries
\* is below MAX_RETRIES (attemptLoadImage changes exactly when retries does).
LoaderEffect(old, new) ==
  IF /\ old.retries = new.retries
     /\ old.currentImage = new.currentImage
     /\ old.error = new.error
  THEN new
  ELSE [new EXCEPT !.timer =
          IF new.currentImage = None /\ new.retries < MAX_RETRIES /\ ~new.error
          THEN <<new.retries>> ELSE <<>>]

\* The screen the component renders.
LoaderScreen(l) ==
  CASE l.isLoading /\ l.currentImage = None -> "loading"
    [] ~l.isLoading /\ l.error /\ l.currentImage = None -> "error"
    [] l.currentImage # None -> "image"
    [] OTHER -> "fallback"

\* The mounted component after its first render and effect.
InitLoader ==
  /\ loader = [currentImage |-> None, isLoading |-> TRUE, error |-> FALSE, retries |-> 0,
               timer |-> <<0>>, inflight |-> <<>>,
               attempts |-> 0, failures |-> 0, broken |-> FALSE, requests |-> 1]
  /\ home = None
  /\ pc = "loader"
  /\ settings = None
  /\ imageData = None
  /\ svgContent = None
  /\ extracted = None
  /\ dimCall = None
  /\ promise = None
  /\ img = None
  /\ nearestCall = None
  /\ kmeans = None

\* The timer fires: attemptLoadImage(retries === 0) runs up to its await.
TimerFires ==
  /\ pc = "loader"
  /\ loader.timer # <<>>
  /\ loader' = LoaderEffect(loader,
                 [loader EXCEPT !.isLoading = TRUE,
                                !.error = IF loader.timer[1] = 0 THEN FALSE ELSE @,
                                !.timer = <<>>,
                                !.inflight = loader.timer,
                                !.attempts = @ + 1])
  /\ UNCHANGED <<pc, settings, imageData, svgContent, extracted, dimCall, promise, img,
                 nearestCall, kmeans, home>>

\* try { ... } after the await, and finally.
AttemptSucceeded(l, image) ==
  [l EXCEPT !.currentImage = image, !.error = FALSE, !.retries = 0,
            !.isLoading = FALSE, !.inflight = <<>>, !.failures = 0]

\* catch with "retries < MAX_RETRIES - 2": the error is set one failure early.
AttemptFailedEarly(l) ==
  LET retries == l.inflight[1]
  IN [l EXCEPT !.retries = IF retries < MAX_RETRIES - 2 THEN @ + 1 ELSE @,
               !.error = IF retries < MAX_RETRIES - 2 THEN @ ELSE TRUE,
               !.isLoading = FALSE, !.inflight = <<>>, !.failures = @ + 1]

\* catch (err) { ... } and finally; retries is the value the closure of
\* attemptLoadImage captured.
AttemptFailed(l) ==
  LET retries == l.inflight[1]
  IN [l EXCEPT !.retries = IF retries < MAX_RETRIES - 1 THEN @ + 1 ELSE @,
               !.error = IF retries < MAX_RETRIES - 1 THEN @ ELSE TRUE,
               !.isLoading = FALSE, !.inflight = <<>>, !.failures = @ + 1]

FetchSucceeds ==
  /\ pc = "loader"
  /\ loader.inflight # <<>>
  /\ \E image \in LoaderImages :
       loader' = LoaderEffect(loader, AttemptSucceeded(loader, image))
  /\ UNCHANGED <<pc, settings, imageData, svgContent, extracted, dimCall, promise, img,
                 nearestCall, kmeans, home>>

FetchFails ==
  /\ pc = "loader"
  /\ loader.inflight # <<>>
  /\ loader' = LoaderEffect(loader, AttemptFailed(loader))
  /\ UNCHANGED <<pc, settings, imageData, svgContent, extracted, dimCall, promise, img,
                 nearestCall, kmeans, home>>

\* Try Again on the error screen, Reload on the image screen.
handleLoadAnotherImage ==
  /\ pc = "loader"
  /\ LoaderScreen(loader) \in {"error", "image"}
  /\ loader.requests < MaxLoadRequests
  /\ loader' = LoaderEffect(loader,
                 [loader EXCEPT !.currentImage = None, !.retries = 0, !.error = FALSE,
                                !.isLoading = TRUE,
                                !.attempts = 0, !.failures = 0, !.broken = FALSE,
                                !.requests = @ + 1])
  /\ UNCHANGED <<pc, settings, imageData, svgContent, extracted, dimCall, promise, img,
                 nearestCall, kmeans, home>>

\* onError of the <img> that shows the fetched image.
imgOnError ==
  /\ pc = "loader"
  /\ loader.currentImage # None
  /\ loader' = LoaderEffect(loader,
                 [loader EXCEPT !.error = TRUE, !.currentImage = None,
                                !.retries = MAX_RETRIES, !.broken = TRUE])
  /\ UNCHANGED <<pc, settings, imageData, svgContent, extracted, dimCall, promise, img,
                 nearestCall, kmeans, home>>

\* Cancel: the parent unmounts the component; the cleanup of the effect
\* clears the timer and a call still in flight no longer changes anything.
onCancel ==
  /\ pc = "loader"
  /\ pc' = "closed"
  /\ loader' = [loader EXCEPT !.timer = <<>>, !.inflight = <<>>]
  /\ UNCHANGED <<settings, imageData, svgContent, extracted, dimCall, promise, img,
                 nearestCall, kmeans, home>>

NextLoader ==
  \/ TimerFires
  \/ FetchSucceeds
  \/ FetchFails
  \/ handleLoadAnotherImage
  \/ imgOnError
  \/ onCancel

SpecLoader == InitLoader /\ [][NextLoader]_vars

(***************************************************************************)
(* C30.  Bounded retry in RandomImageLoader: for one load request at most  *)
(* MAX_RETRIES (3) fetch attempts are made; the error screen is shown only *)
(* after the third consecutive failed attempt or after the fetched image   *)
(* failed to render (onError of the <img>); once it is shown no attempt is *)
(* scheduled or in flight until the user presses Try Again; a successful   *)
(* attempt resets the retry counter to 0 and clears the error.             *)
(***************************************************************************)
AtMostMaxRetriesAttempts == loader.attempts <= MAX_RETRIES

NothingScheduledOnError ==
  LoaderScreen(loader) = "error" => loader.timer = <<>> /\ loader.inflight = <<>>

OnlyTryAgainLeavesError ==
  (LoaderScreen(loader) = "error" /\ loader' # loader) =>
    \/ pc' = "closed"
    \/ /\ loader'.requests = loader.requests + 1
       /\ loader'.attempts = 0
       /\ loader'.timer = <<0>>

SuccessResets ==
  (loader.inflight # <<>> /\ loader'.currentImage # None) =>
    /\ loader'.retries = 0
    /\ ~loader'.error
    /\ loader'.timer = <<>>

BoundedRetry ==
  /\ [](AtMostMaxRetriesAttempts /\ NothingScheduledOnError)
  /\ [](LoaderScreen(loader) = "error" =>
          \/ loader.failures = MAX_RETRIES /\ loader.attempts = MAX_RETRIES
          \/ loader.broken)
  /\ [](loader.failures = MAX_RETRIES => loader.error)
  /\ [][OnlyTryAgainLeavesError]_vars
  /\ [][SuccessResets]_vars

\* The second load request has failed three times in a row: the error
\* screen is shown again.
BoundedRetryWitness ==
  /\ pc = "loader"
  /\ LoaderScreen(loader) = "error"
  /\ loader.requests = 2
  /\ loader.attempts = MAX_RETRIES
  /\ loader.failures = MAX_RETRIES
  /\ ~loader.broken

\* The claim as stated: the error screen only after three consecutive
\* failed attempts.
BoundedRetryAsClaimed ==
  /\ [](AtMostMaxRetriesAttempts /\ NothingScheduledOnError)
  /\ [](LoaderScreen(loader) = "error" => loader.failures = MAX_RETRIES)
  /\ [][OnlyTryAgainLeavesError]_vars
  /\ [][SuccessResets]_vars

====
